---- MODULE Spec2Model ----
(***************************************************************************)
(* Conversation flow of the Kayako voice assistant:                        *)
(* ConversationFlowManager (src/src/conversation/flow.py) over             *)
(* ConversationContext (state.py), ConversationHandler (handler.py) and    *)
(* TicketManager (src/src/tickets/ticket_manager.py).                      *)
(*                                                                         *)
(* One action is one call of start_conversation or process_message.  The   *)
(* answers of the collaborators (classifier, knowledge base, response      *)
(* generator, Kayako API) are inputs of the action.                        *)
(***************************************************************************)
EXTENDS Naturals, Sequences, FiniteSets, TLC

\* Most user messages a conversation is followed to, and the same for a
\* conversation whose caller may ask for a human.
MaxUserMessages == 4

MaxHumanMessages == 2

\* context.messages[-5:] in TicketManager.extract_contact_info
ContactWindow == 5

ConvIds == {"c1"}

---------------------------------------------------------------------------
\* ConversationState and Intent (state.py)

ConversationState ==
    [GREETING |-> "greeting", COLLECTING_ISSUE |-> "collecting_issue",
     SEARCHING_KB |-> "searching_kb", PROVIDING_SOLUTION |-> "providing_solution",
     CREATING_TICKET |-> "creating_ticket", ENDED |-> "ended"]

Intent ==
    [GENERAL_QUERY |-> "general_query", PASSWORD_RESET |-> "password_reset",
     BILLING_ISSUE |-> "billing_issue", TECHNICAL_PROBLEM |-> "technical_problem",
     ACCOUNT_ACCESS |-> "account_access", CONFIRM |-> "confirm", DENY |-> "deny",
     UNKNOWN |-> "unknown"]

IntentValues == {Intent[m] : m \in DOMAIN Intent}

\* Intent.<name>: an attribute that is no member raises AttributeError.
IntentHasMember(name) == name \in DOMAIN Intent

\* The intents the classifier's prompt lists (handler.py:90-98).
PromptIntents == IntentValues \cup {"end_conversation"}

\* What the classifier call is taken to produce: an intent of its prompt (one
\* of the five topical intents stands for all of them), or an error of the
\* call itself.
ClassifierReplies ==
    {"general_query", "confirm", "deny", "unknown", "end_conversation",
     "api_error"}

---------------------------------------------------------------------------
\* Message contents, by what the extractor's patterns find in them.
\*   issue      no email, no phone
\*   human      no email, no phone, contains the word "human"
\*   email_ok   an email that TicketManager._validate_email accepts
\*   email_bad  an email the extraction pattern matches and _validate_email
\*              rejects (such as a top-level domain with a digit)
\*   phone      a phone number
Contents == {"issue", "human", "email_ok", "email_bad", "phone"}

\* The utterances callers are taken to say, and those of callers who may
\* also ask for a human.
HumanUtterances == {"issue", "human", "email_ok", "email_bad", "phone"}

Utterances == {"issue", "email_ok", "email_bad", "phone"}

EmailIn(content) ==
    CASE content = "email_ok" -> "ok"
      [] content = "email_bad" -> "bad"
      [] OTHER -> "None"

PhoneIn(content) == IF content = "phone" THEN "ok" ELSE "None"

ContainsHuman(content) == content = "human"

\* The responses process_message and start_conversation return.
R_WELCOME == "Welcome to Kayako Support. How can I help you today?"
R_KB_DOWN == "I'm having trouble accessing our knowledge base right now."
R_LOST == "I seem to have lost track of our conversation."
R_TROUBLE == "I'm having trouble processing your request."
R_CRITICAL == "I apologize, but I'm experiencing technical difficulties."
R_SOLUTION == "<summary> Was this information helpful?"
R_NO_KB == "I couldn't find a specific solution. Could you please provide your email address?"
R_TICKET_OK == "I've created a support ticket with our complete conversation."
R_TICKET_FAIL == "I'm having trouble creating your ticket. Please try again later."
R_ASK_CONTACT == "I couldn't find a valid email address or phone number."
R_HELLO == "Hello! How can I help you today?"
R_FAREWELL == "Thank you for contacting us. Have a great day!"
R_HUMAN == "I'll need to create a ticket. Could you please provide your email address?"
R_GREAT == "Great! Is there anything else I can help you with?"
R_SORRY == "I'm sorry the information wasn't helpful. Could you please provide your email address?"
R_WHAT_ELSE == "What else can I help you with?"
R_GENERATED == "<generated response>"

\* What a caller can observe when an exception leaves the call.
EXCEPTION == "<exception>"

Responses ==
    {R_WELCOME, R_KB_DOWN, R_LOST, R_TROUBLE, R_CRITICAL, R_SOLUTION, R_NO_KB,
     R_TICKET_OK, R_TICKET_FAIL, R_ASK_CONTACT, R_HELLO, R_FAREWELL, R_HUMAN,
     R_GREAT, R_SORRY, R_WHAT_ELSE, R_GENERATED}

---------------------------------------------------------------------------
\* ConversationContext (state.py:42-137)

NoMetadata == [email |-> "absent", phone |-> "absent"]

\* handler.py:32-39 create_conversation
NewContext ==
    [current_state |-> ConversationState.GREETING, messages |-> <<>>,
     detected_entities |-> <<>>,
     last_intent |-> "None", metadata |-> NoMetadata]

\* Entity(type="", value="", confidence=0.0), state.py:68
NoEntity == [type |-> "", value |-> "", confidence |-> 0]

\* Entity (state.py:28-32): type, value and confidence, a float of [0, 1]
\* counted here in tenths.  detected_entities.get(type, NoEntity).confidence
Confidence(detected_entities, type) ==
    IF type \in DOMAIN detected_entities
    THEN detected_entities[type].confidence ELSE 0

\* A store that also replaces on a tie.
StoreOnTie(detected_entities, entity) ==
    IF entity.confidence >= Confidence(detected_entities, entity.type)
    THEN (entity.type :> entity) @@ detected_entities
    ELSE detected_entities

\* state.py:68-69, the body of the loop over the entities
store_entity(detected_entities, entity) ==
    IF entity.confidence > Confidence(detected_entities, entity.type)
    THEN (entity.type :> entity) @@ detected_entities
    ELSE detected_entities

\* state.py:67-69, the loop: the entities in the order of the list
RECURSIVE store_entities(_, _)
store_entities(detected_entities, entities) ==
    IF entities = <<>> THEN detected_entities
    ELSE store_entities(store_entity(detected_entities, Head(entities)),
                        Tail(entities))

\* An add_message over a history that keeps its two latest messages.
AddMessageWindow(ctx, role, content, intent, entities) ==
    [ctx EXCEPT !.messages =
                    LET all == Append(@, [role |-> role, content |-> content])
                    IN  IF Len(all) <= 2 THEN all
                        ELSE SubSeq(all, Len(all) - 1, Len(all)),
                !.last_intent = IF intent # "None" THEN intent ELSE @,
                !.detected_entities = store_entities(@, entities)]

\* state.py:51-69 add_message (intent is "None" when the caller gives none,
\* entities <<>> when it gives none or an empty list)
add_message(ctx, role, content, intent, entities) ==
    [ctx EXCEPT !.messages = Append(@, [role |-> role, content |-> content]),
                !.last_intent = IF intent # "None" THEN intent ELSE @,
                !.detected_entities = store_entities(@, entities)]

\* state.py:135-137
transition_state(ctx, new_state) == [ctx EXCEPT !.current_state = new_state]

---------------------------------------------------------------------------
\* TicketManager (ticket_manager.py)

\* A slice that keeps the n latest elements, for every n.
LastAtMost(seq, n) ==
    IF Len(seq) <= n THEN seq ELSE SubSeq(seq, Len(seq) - n + 1, Len(seq))

\* seq[-n:] for n >= 0; -0 is 0, and seq[0:] is all of seq.
LastN(seq, n) ==
    IF n = 0 \/ Len(seq) <= n THEN seq
    ELSE SubSeq(seq, Len(seq) - n + 1, Len(seq))

\* re.search over the joined text: the leftmost match, so the first message
\* of the sequence that holds one.
FirstMatch(found) ==
    LET hits == {i \in 1..Len(found) : found[i] # "None"}
    IN  IF hits = {} THEN "None"
        ELSE found[CHOOSE i \in hits : \A j \in hits : i <= j]

UserContents(msgs) ==
    LET users == SelectSeq(msgs, LAMBDA m : m.role = "user")
    IN  [i \in 1..Len(users) |-> users[i].content]

\* ticket_manager.py:195-264.  msgs is context.messages, <<>> without context.
extract_contact_info(message, msgs) ==
    LET recent_messages ==
            Append(UserContents(LastN(msgs, ContactWindow)), message)
    IN  [email |-> FirstMatch([i \in 1..Len(recent_messages) |->
                                   EmailIn(recent_messages[i])]),
         phone |-> FirstMatch([i \in 1..Len(recent_messages) |->
                                   PhoneIn(recent_messages[i])])]

HasContact(contact_info) ==
    contact_info.email # "None" \/ contact_info.phone # "None"

\* ticket_manager.py:36-39
validate_email(email) == email = "ok"

\* ticket_manager.py:41-50: every number the extraction patterns match has
\* 10 or 11 digits after the separators are removed.
validate_phone(phone) == phone = "ok"

\* Names bound in ticket_manager.py (its imports, lines 3-13).
TicketManagerNames ==
    {"re", "List", "Optional", "Dict", "datetime", "sentry_sdk", "BaseModel",
     "EmailStr", "Field", "os", "logging", "Ticket", "RealKayakoAPI",
     "ConversationContext", "Message"}

\* Fields of kb.interfaces.Ticket without a default (interfaces.py:36-44).
TicketRequiredFields ==
    {"id", "subject", "description", "requester_email", "status", "priority"}

\* Keywords of the Ticket(...) call, ticket_manager.py:169-176.
TicketGivenFields ==
    {"subject", "contents", "channel", "type_id", "priority_id", "requester_id"}

\* pydantic raises ValidationError when a required field is missing.
TicketConstructs == TicketRequiredFields \subseteq TicketGivenFields

\* metadata.get(key)
MetadataGet(value) == IF value = "absent" THEN "None" ELSE value

\* context.messages[-3:] in TicketManager._determine_priority
PriorityWindow == 3

\* A content with one of the urgent_keywords (ticket_manager.py:66).
UrgentIn(content) == content = "urgent"

\* ticket_manager.py:63-78 _determine_priority
determine_priority(msgs) ==
    LET recent_messages == UserContents(LastN(msgs, PriorityWindow))
    IN  IF \E i \in 1..Len(recent_messages) : UrgentIn(recent_messages[i])
        THEN "high" ELSE "medium"

\* The priority the Ticket(...) call is given, ticket_manager.py:169-176.
TicketPriorityGiven == "priority_id=1"

\* A create_ticket that returns a ticket id whenever the validation passes.
CreateTicketSucceeding(email, phone, lookup, api) ==
    IF \/ email = "None" /\ phone = "None"
       \/ email # "None" /\ ~validate_email(email)
       \/ phone # "None" /\ ~validate_phone(phone)
    THEN [ok |-> FALSE, error |-> "ValueError", calls |-> {},
          priority |-> "None"]
    ELSE [ok |-> TRUE, error |-> "None", calls |-> {"create_ticket"},
          priority |-> TicketPriorityGiven]

\* ticket_manager.py:80-193.  lookup is the answer of api.get_user_by_email
\* ("found", "not_found", "error"), api that of api.create_ticket ("ok",
\* "error").  ok: a ticket id is returned; otherwise the call raises error.
\* calls are the calls made to the Kayako API, priority what Ticket(...) is
\* given when the call gets that far.
create_ticket(email, phone, lookup, api) ==
    LET Raise(error, calls, priority) ==
            [ok |-> FALSE, error |-> error, calls |-> calls,
             priority |-> priority]
    IN  IF email = "None" /\ phone = "None" THEN Raise("ValueError", {}, "None")
        ELSE IF email # "None" /\ ~validate_email(email)
             THEN Raise("ValueError", {}, "None")
        ELSE IF phone # "None" /\ ~validate_phone(phone)
             THEN Raise("ValueError", {}, "None")
        ELSE LET user_calls == IF email # "None" THEN {"get_user_by_email"} ELSE {}
             IN  IF email # "None" /\ lookup = "error"
                 THEN Raise("ApiError", user_calls, "None")
                 ELSE IF email # "None" /\ lookup = "not_found"
                         /\ "User" \notin TicketManagerNames
                      THEN Raise("NameError", user_calls, "None")
                 ELSE IF ~TicketConstructs
                      THEN Raise("ValidationError", user_calls,
                                 TicketPriorityGiven)
                 ELSE IF api = "error"
                      THEN Raise("ApiError", user_calls \cup {"create_ticket"},
                                 TicketPriorityGiven)
                 ELSE [ok |-> TRUE, error |-> "None",
                       calls |-> user_calls \cup {"create_ticket"},
                       priority |-> TicketPriorityGiven]

\* A create_ticket that closes the conversation it is given once it is past
\* the validation.
CreateTicketEnding(ctx, email, phone, lookup, api) ==
    [ctx |-> IF create_ticket(email, phone, lookup, api).error = "ValueError"
             THEN ctx
             ELSE [ctx EXCEPT !.current_state = "ended"],
     result |-> create_ticket(email, phone, lookup, api)]

\* create_ticket with the context it is given: it reads conversation_id and
\* messages for the TicketMetadata (ticket_manager.py:162-165) and assigns
\* to nothing of the context.
create_ticket_on(ctx, email, phone, lookup, api) ==
    [ctx |-> ctx, result |-> create_ticket(email, phone, lookup, api)]

---------------------------------------------------------------------------
\* Collaborators of ConversationFlowManager

\* handler.py:85-141: Intent(parsed["intent"]) raises ValueError for a value
\* that is no member of Intent; an error of the API call propagates.  The
\* replies are taken to list no entities, as the examples of the prompt do.
detect_intent(reply) ==
    IF reply \in IntentValues
    THEN [ok |-> TRUE, intent |-> reply, entities |-> <<>>]
    ELSE [ok |-> FALSE, intent |-> "None", entities |-> <<>>]

KbAnswers == {"hit", "miss", "error"}

\* search.py:129-159: a summary, or None when nothing is relevant; every
\* exception is caught and None returned.
search_and_summarize(kb) == IF kb = "hit" THEN "summary" ELSE "None"

GenAnswers == {"text", "none", "error"}

InitAnswers == {"ok", "error"}

\* The answers of the Kayako API to one create_ticket: that of
\* get_user_by_email, and that of create_ticket when a user was found.
KayakoAnswers ==
    {[lookup |-> "found", api |-> "ok"], [lookup |-> "found", api |-> "error"],
     [lookup |-> "not_found", api |-> "ok"], [lookup |-> "error", api |-> "ok"]}

---------------------------------------------------------------------------
\* ConversationFlowManager (flow.py)

NoContact == [email |-> "None", phone |-> "None"]

\* What one call did: the context as it leaves it, the response, whether an
\* exception is propagating (raised) and whether the response was returned
\* before the assistant message is recorded (direct).
Result(ctx, response) ==
    [ctx |-> ctx, response |-> response, raised |-> FALSE, direct |-> FALSE,
     classified |-> FALSE, intent |-> "None",
     extracted |-> FALSE, contact_info |-> NoContact,
     kb_called |-> FALSE, kb_response |-> "None",
     ticket_attempted |-> FALSE, ticket_ok |-> FALSE, api_calls |-> {},
     kayako_up |-> FALSE]

Raise(r) == [r EXCEPT !.raised = TRUE, !.response = EXCEPTION]

\* flow.py:179-216 _create_support_ticket: (success, message); the except
\* clause turns every failure of create_ticket into (False, ...).
create_support_ticket(ctx, inp) ==
    LET t == create_ticket(MetadataGet(ctx.metadata.email),
                           MetadataGet(ctx.metadata.phone), inp.kayako.lookup, inp.kayako.api)
    IN  [success |-> t.ok,
         response |-> IF t.ok THEN R_TICKET_OK ELSE R_TICKET_FAIL,
         calls |-> t.calls,
         kayako_up |-> inp.kayako = [lookup |-> "found", api |-> "ok"]]

\* A ticket step that closes the conversation whether or not the ticket was
\* created.
StoreAndCreateEnding(r, contact_info, move_first, inp) ==
    [r EXCEPT !.ctx = transition_state(
                         [@ EXCEPT !.metadata = [email |-> contact_info.email,
                                                 phone |-> contact_info.phone]],
                         ConversationState.ENDED),
              !.response = R_TICKET_FAIL,
              !.ticket_attempted = TRUE, !.ticket_ok = FALSE,
              !.api_calls = {}, !.kayako_up = FALSE]

\* flow.py:111-118, 140-147, 241-248, 296-303: store the contact info,
\* (from COLLECTING_ISSUE: move to CREATING_TICKET,) create the ticket, move
\* to ENDED on success, return the ticket response.
StoreAndCreate(r, contact_info, move_first, inp) ==
    LET ctx1 == [r.ctx EXCEPT !.metadata = [email |-> contact_info.email,
                                            phone |-> contact_info.phone]]
        ctx2 == IF move_first
                THEN transition_state(ctx1, ConversationState.CREATING_TICKET)
                ELSE ctx1
        t    == create_support_ticket(ctx2, inp)
        ctx3 == IF t.success
                THEN transition_state(ctx2, ConversationState.ENDED)
                ELSE ctx2
    IN  [r EXCEPT !.ctx = ctx3, !.response = t.response,
                  !.ticket_attempted = TRUE, !.ticket_ok = t.success,
                  !.api_calls = t.calls, !.kayako_up = t.kayako_up]

\* A search whose result does not decide the next state.
SearchKbAlwaysTicket(r, is_initialized, inp) ==
    [r EXCEPT !.kb_called = is_initialized,
              !.kb_response = IF is_initialized
                              THEN search_and_summarize(inp.kb) ELSE "None",
              !.ctx = transition_state(@, ConversationState.CREATING_TICKET),
              !.response = R_NO_KB]

\* flow.py:120-132, 264-276: the knowledge-base search of COLLECTING_ISSUE.
SearchKb(r, is_initialized, inp) ==
    LET kb_response == IF is_initialized THEN search_and_summarize(inp.kb)
                       ELSE "None"
        r1 == [r EXCEPT !.kb_called = is_initialized,
                        !.kb_response = kb_response]
    IN  IF kb_response # "None"
        THEN [r1 EXCEPT
                !.ctx = transition_state(@, ConversationState.PROVIDING_SOLUTION),
                !.response = R_SOLUTION]
        ELSE [r1 EXCEPT
                !.ctx = transition_state(@, ConversationState.CREATING_TICKET),
                !.response = R_NO_KB]

\* handler.py:143-154 generate_response
generate_response(r, inp) ==
    CASE inp.gen = "text"  -> [r EXCEPT !.response = R_GENERATED]
      [] inp.gen = "none"  -> [r EXCEPT !.response = "None"]
      [] inp.gen = "error" -> Raise(r)

\* transition_state and the response to return
Go(r, new_state, response) ==
    [r EXCEPT !.ctx = transition_state(@, new_state), !.response = response]

\* A solution that lets a confirmation escalate instead of ending.
ProvidingSolutionSwapped(r, intent, inp) ==
    IF intent = Intent.CONFIRM
    THEN Go(r, ConversationState.CREATING_TICKET, R_SORRY)
    ELSE IF intent = Intent.DENY
    THEN Go(r, ConversationState.ENDED, R_GREAT)
    ELSE generate_response(r, inp)

\* flow.py:278-287, the PROVIDING_SOLUTION branch of _handle_state
ProvidingSolution(r, intent, inp) ==
    IF intent = Intent.CONFIRM
    THEN Go(r, ConversationState.ENDED, R_GREAT)
    ELSE IF intent = Intent.DENY
    THEN Go(r, ConversationState.CREATING_TICKET, R_SORRY)
    ELSE generate_response(r, inp)

\* flow.py:308-317, the ENDED branch of _handle_state.  The second operand
\* of "or" is evaluated only when the intent is not DENY.
Ended(r, intent, inp) ==
    IF intent = Intent.CONFIRM
    THEN Go(r, ConversationState.COLLECTING_ISSUE, R_WHAT_ELSE)
    ELSE IF intent = Intent.DENY THEN [r EXCEPT !.response = R_FAREWELL]
    ELSE IF ~IntentHasMember("END_CONVERSATION") THEN Raise(r)
    ELSE IF intent = Intent["END_CONVERSATION"]
    THEN [r EXCEPT !.response = R_FAREWELL]
    ELSE generate_response(
            Go(r, ConversationState.COLLECTING_ISSUE, "None"), inp)

\* flow.py:218-320 _handle_state.  r.ctx holds the user message already.
handle_state(r, message, intent, is_initialized, inp) ==
    LET state == r.ctx.current_state
    IN
    CASE state = ConversationState.GREETING ->
            Go(r, ConversationState.COLLECTING_ISSUE, R_HELLO)
      [] state = ConversationState.COLLECTING_ISSUE ->
            LET contact_info == extract_contact_info(message, r.ctx.messages)
                r1 == [r EXCEPT !.extracted = TRUE,
                                !.contact_info = contact_info]
            IN  IF HasContact(contact_info)
                THEN StoreAndCreate(r1, contact_info, TRUE, inp)
                ELSE IF ~IntentHasMember("END_CONVERSATION") THEN Raise(r1)
                ELSE IF intent = Intent["END_CONVERSATION"]
                THEN LET r2 == [r1 EXCEPT !.ctx =
                              transition_state(@, ConversationState.ENDED)]
                     IN  IF r2.ctx.metadata.email # "absent"
                            \/ r2.ctx.metadata.phone # "absent"
                         THEN LET t == create_support_ticket(r2.ctx, inp)
                              IN  [r2 EXCEPT !.response = t.response,
                                             !.ticket_attempted = TRUE,
                                             !.ticket_ok = t.success,
                                             !.api_calls = t.calls,
                                             !.kayako_up = t.kayako_up]
                         ELSE [r2 EXCEPT !.response = R_FAREWELL]
                ELSE IF intent = Intent.UNKNOWN /\ ContainsHuman(message)
                THEN [r1 EXCEPT !.ctx = transition_state(
                                    @, ConversationState.CREATING_TICKET),
                                !.response = R_HUMAN]
                ELSE SearchKb(r1, is_initialized, inp)
      [] state = ConversationState.PROVIDING_SOLUTION ->
            ProvidingSolution(r, intent, inp)
      [] state = ConversationState.CREATING_TICKET ->
            LET contact_info == extract_contact_info(message, r.ctx.messages)
                r1 == [r EXCEPT !.extracted = TRUE,
                                !.contact_info = contact_info]
            IN  IF HasContact(contact_info)
                THEN StoreAndCreate(r1, contact_info, FALSE, inp)
                ELSE [r1 EXCEPT !.response = R_ASK_CONTACT]
      [] state = ConversationState.ENDED ->
            Ended(r, intent, inp)
      [] OTHER -> generate_response(r, inp)

\* flow.py:25-36 initialize: None on success or when already initialized,
\* the knowledge-base message when kb_engine.initialize() raises.
initialize(is_initialized, inp) ==
    IF is_initialized THEN [initialized |-> TRUE, message |-> "None"]
    ELSE IF inp.init = "ok" THEN [initialized |-> TRUE, message |-> "None"]
    ELSE [initialized |-> FALSE, message |-> R_KB_DOWN]

\* An except clause that lets the exception go on.
ExceptReraise(r, response) == r

\* An "except Exception" clause that returns a response (flow.py:163-165 and
\* 167-177): what the body did to the context stays.
Except(r, response) ==
    IF r.raised THEN [r EXCEPT !.raised = FALSE, !.response = response] ELSE r

\* flow.py:155-161: record the assistant's response and return it.
\* Message(content=None) fails pydantic's validation.
RecordResponse(r) ==
    IF r.raised \/ r.direct THEN r
    ELSE IF r.response = "None" THEN Raise(r)
    ELSE [r EXCEPT !.ctx = add_message(@, "assistant", r.response, "None",
                                        <<>>)]

\* flow.py:107-153: the branch of the current state.  r holds the user
\* message already.
Dispatch(r, contact_info, message, is_initialized, inp) ==
    CASE r.ctx.current_state = ConversationState.COLLECTING_ISSUE ->
           IF HasContact(contact_info)
           THEN [StoreAndCreate([r EXCEPT !.extracted = TRUE,
                                          !.contact_info = contact_info],
                                contact_info, TRUE, inp)
                   EXCEPT !.direct = TRUE]
           ELSE SearchKb([r EXCEPT !.extracted = TRUE,
                                   !.contact_info = contact_info],
                         is_initialized, inp)
      [] r.ctx.current_state = ConversationState.CREATING_TICKET ->
           IF HasContact(contact_info)
           THEN [StoreAndCreate([r EXCEPT !.extracted = TRUE,
                                          !.contact_info = contact_info],
                                contact_info, FALSE, inp)
                   EXCEPT !.direct = TRUE]
           ELSE [r EXCEPT !.extracted = TRUE, !.contact_info = contact_info,
                          !.response = R_ASK_CONTACT, !.direct = TRUE]
      [] OTHER ->
           handle_state(r, message, r.intent, is_initialized, inp)

\* flow.py:94-161, the body of the inner try.
ProcessTurn(ctx, message, is_initialized, inp) ==
    IF ~detect_intent(inp.reply).ok THEN Raise(Result(ctx, "None"))
    ELSE RecordResponse(
           Dispatch([Result(add_message(ctx, "user", message,
                                        detect_intent(inp.reply).intent,
                                        detect_intent(inp.reply).entities),
                            "None")
                       EXCEPT !.classified = TRUE,
                              !.intent = detect_intent(inp.reply).intent],
                    extract_contact_info(message,
                        add_message(ctx, "user", message, "None",
                                    <<>>).messages),
                    message, is_initialized, inp))

\* flow.py:70-177 process_message.  known: the id is in the registry, and
\* r.ctx is its context after the call.
process_message(convs, is_initialized, c, message, inp) ==
    LET i == initialize(is_initialized, inp)
        Early(response) ==
            [initialized |-> i.initialized, known |-> FALSE,
             r |-> Result(NewContext, response)]
    IN  IF ~is_initialized /\ i.message # "None" THEN Early(i.message)
        ELSE IF c \notin DOMAIN convs THEN Early(R_LOST)
        ELSE [initialized |-> i.initialized, known |-> TRUE,
              r |-> Except(
                      Except(ProcessTurn(convs[c], message, i.initialized, inp),
                             R_TROUBLE),
                      R_CRITICAL)]

\* A start that leaves the new conversation in GREETING.
StartWithoutTransition(is_initialized, inp) ==
    [initialized |-> initialize(is_initialized, inp).initialized,
     ctx |-> NewContext,
     greeting |-> IF initialize(is_initialized, inp).message # "None"
                  THEN initialize(is_initialized, inp).message ELSE R_WELCOME]

\* A start_conversation that leaves the new context in GREETING.
StartConversationGreeting(is_initialized, inp) ==
    [initialized |-> initialize(is_initialized, inp).initialized,
     ctx |-> NewContext,
     greeting |-> IF initialize(is_initialized, inp).message # "None"
                  THEN initialize(is_initialized, inp).message ELSE R_WELCOME]

\* flow.py:38-68 start_conversation, with handler.py:32-39.
start_conversation(is_initialized, inp) ==
    LET i == initialize(is_initialized, inp)
    IN  [initialized |-> i.initialized,
         ctx |-> transition_state(NewContext, ConversationState.COLLECTING_ISSUE),
         greeting |-> IF i.message # "None" THEN i.message ELSE R_WELCOME]

\* The collaborators' answers during one call that meets the orchestrator and
\* the conversation (state "None": not in the registry) as given.  An answer
\* is drawn only for a collaborator a path from there can call; the others
\* get one fixed answer.
InputsFor(is_initialized, state, messages, message) ==
    LET contact == HasContact(extract_contact_info(message,
                       Append(messages, [role |-> "user", content |-> message])))
        tickets == state \in {"collecting_issue", "creating_ticket"} /\ contact
        searches == state = "collecting_issue" /\ ~contact
        generates == state \notin {"collecting_issue", "creating_ticket", "None"}
        Answers(reply) ==
            LET heard == detect_intent(reply).ok
            IN  [reply  : {reply},
                 init   : IF is_initialized THEN {"ok"} ELSE InitAnswers,
                 kb     : IF heard /\ searches THEN KbAnswers ELSE {"miss"},
                 gen    : IF heard /\ generates /\ reply \notin {"confirm", "deny"}
                          THEN GenAnswers ELSE {"text"},
                 kayako : IF heard /\ tickets THEN KayakoAnswers
                          ELSE {[lookup |-> "found", api |-> "ok"]}]
    IN  UNION {Answers(reply) :
                 reply \in IF state = "None" THEN {"unknown"} ELSE ClassifierReplies}

---------------------------------------------------------------------------
\* The state: the orchestrator's initialized flag, the registry
\* ConversationHandler.conversations, and a record of the last call.

NoCall ==
    [op |-> "none", conv |-> "None", entry |-> "None", message |-> "None",
     reply |-> "None", known |-> FALSE, offered |-> NoContact,
     r |-> [Result(NewContext, "None") EXCEPT !.ctx = "None"]]

\* call_conversations is TwilioHandler.call_conversations, the conversation id
\* of each call in progress.
\* tasks holds, for each asyncio task, the await its call is suspended at.
\* api is the RealKayakoAPI client: its user cache, the users its server
\* has, and the call it is running.
VARIABLES initialized, conversations, last, call_conversations, tasks, api

vars == <<initialized, conversations, last, call_conversations, tasks, api>>

\* kayako_client.py:93-101: empty caches, no call running.
NewApi ==
    [user_cache |-> <<>>, user_email_cache |-> <<>>, message_cache |-> <<>>,
     server |-> <<>>, messages |-> <<>>,
     call |-> [op |-> "none", user_id |-> "None", email |-> "None",
               data |-> "None", attempts |-> 0]]

TaskIds == {"t1", "t2"}

\* A task that runs no call.
IdleTask ==
    [pc |-> "idle", op |-> "none", conv |-> "None", message |-> "None",
     seq |-> 0, contact |-> [email |-> "None", phone |-> "None"]]

Init ==
    /\ initialized = FALSE
    /\ conversations = <<>>
    /\ last = NoCall
    /\ call_conversations = <<>>
    /\ tasks = [t \in TaskIds |-> IdleTask]
    /\ api = NewApi

StartConversation ==
    \E c \in ConvIds \ DOMAIN conversations,
       inp \in InputsFor(initialized, "None", <<>>, "issue") :
      LET s == start_conversation(initialized, inp)
      IN  /\ initialized' = s.initialized
          /\ conversations' = (c :> s.ctx) @@ conversations
          /\ last' = [NoCall EXCEPT !.op = "start_conversation", !.conv = c,
                                    !.known = TRUE,
                                    !.r.response = s.greeting]
          /\ UNCHANGED <<call_conversations, tasks, api>>

\* One process_message call, the utterance drawn from `utterances`, on a
\* conversation of fewer than `most` user messages.
Turn(utterances, most) ==
    \E c \in ConvIds :
      /\ c \in DOMAIN conversations =>
            Len(UserContents(conversations[c].messages)) < most
      /\ \E message \in utterances :
         \E inp \in IF c \in DOMAIN conversations
                     THEN InputsFor(initialized, conversations[c].current_state,
                                    conversations[c].messages, message)
                     ELSE InputsFor(initialized, "None", <<>>, message) :
         \E p \in {process_message(conversations, initialized, c, message, inp)} :
             /\ initialized' = p.initialized
             /\ conversations' =
                   IF p.known THEN [conversations EXCEPT ![c] = p.r.ctx]
                   ELSE conversations
             /\ last' =
                   [op |-> "process_message", conv |-> c,
                    entry |-> IF c \in DOMAIN conversations
                              THEN conversations[c].current_state ELSE "None",
                    message |-> message,
                    reply |-> IF p.known THEN inp.reply ELSE "None",
                    known |-> p.known,
                    offered |-> IF c \in DOMAIN conversations
                                THEN extract_contact_info(message,
                                       Append(conversations[c].messages,
                                              [role |-> "user",
                                               content |-> message]))
                                ELSE NoContact,
                    r |-> [p.r EXCEPT !.ctx = "None"]]
             /\ UNCHANGED <<call_conversations, tasks, api>>

ProcessMessage == Turn(Utterances, MaxUserMessages)

ProcessHumanMessage == Turn(HumanUtterances, MaxHumanMessages)

Next == StartConversation \/ ProcessMessage

Spec == Init /\ [][Next]_vars

\* The conversations of callers who may ask for a human.
NextHuman == StartConversation \/ ProcessHumanMessage

SpecHuman == Init /\ [][NextHuman]_vars

\* Conversations of up to MaxWindowMessages user messages, long enough for a
\* user message to leave the window of extract_contact_info.
MaxWindowMessages == 5

WindowUtterances == {"issue", "email_ok"}

ProcessWindowMessage == Turn(WindowUtterances, MaxWindowMessages)

NextWindow == StartConversation \/ ProcessWindowMessage

SpecWindow == Init /\ [][NextWindow]_vars

---------------------------------------------------------------------------
\* TwilioHandler (twilio_handler.py): the calls of the telephony layer over
\* one ConversationFlowManager.

CallSids == {"s1", "s2"}

\* uuid4 gives an id that is not in use; the ids it is taken to give.
CallConvIds == {"c1", "c2", "c3"}

\* Most user messages, over all conversations, the calls are followed to.
MaxCallMessages == 1

CallUtterances == {"issue", "phone"}

RECURSIVE CountUserMessages(_, _)
CountUserMessages(convs, ids) ==
    IF ids = {} THEN 0
    ELSE LET c == CHOOSE x \in ids : TRUE
         IN  Len(UserContents(convs[c].messages))
               + CountUserMessages(convs, ids \ {c})

NoStart == [reply |-> "unknown", init |-> "ok", kb |-> "miss", gen |-> "text",
            kayako |-> [lookup |-> "found", api |-> "ok"]]

\* twilio_handler.py:57-92 handle_incoming_call
HandleIncomingCall ==
    \E sid \in CallSids, c \in CallConvIds \ DOMAIN conversations,
       inp \in InputsFor(initialized, "None", <<>>, "issue") :
      LET s == start_conversation(initialized, inp)
      IN  /\ initialized' = s.initialized
          /\ conversations' = (c :> s.ctx) @@ conversations
          /\ call_conversations' = (sid :> c) @@ call_conversations
          /\ last' = [NoCall EXCEPT !.op = "start_conversation", !.conv = c,
                                    !.known = TRUE,
                                    !.r.response = s.greeting]
          /\ UNCHANGED <<tasks, api>>

\* twilio_handler.py:94-165 handle_transcription: a call without a
\* conversation gets a new one, then the transcript is processed.
HandleTranscription ==
    \E sid \in CallSids, message \in CallUtterances :
    \E c \in IF sid \in DOMAIN call_conversations
              THEN {call_conversations[sid]}
              ELSE CallConvIds \ DOMAIN conversations :
    \E inp0 \in IF sid \in DOMAIN call_conversations THEN {NoStart}
                 ELSE InputsFor(initialized, "None", <<>>, "issue") :
      LET mapped == sid \in DOMAIN call_conversations
          s      == start_conversation(initialized, inp0)
          convs1 == IF mapped THEN conversations
                    ELSE (c :> s.ctx) @@ conversations
          init1  == IF mapped THEN initialized ELSE s.initialized
      IN  /\ CountUserMessages(convs1, DOMAIN convs1) < MaxCallMessages
          /\ \E inp \in InputsFor(init1, convs1[c].current_state,
                                   convs1[c].messages, message) :
             \E p \in {process_message(convs1, init1, c, message, inp)} :
               /\ initialized' = p.initialized
               /\ conversations' =
                     IF p.known THEN [convs1 EXCEPT ![c] = p.r.ctx] ELSE convs1
               /\ call_conversations' = (sid :> c) @@ call_conversations
               /\ last' =
                     [op |-> "process_message", conv |-> c,
                      entry |-> convs1[c].current_state,
                      message |-> message,
                      reply |-> IF p.known THEN inp.reply ELSE "None",
                      known |-> p.known,
                      offered |-> extract_contact_info(message,
                                     Append(convs1[c].messages,
                                            [role |-> "user",
                                             content |-> message])),
                      r |-> [p.r EXCEPT !.ctx = "None"]]
               /\ UNCHANGED <<tasks, api>>

\* twilio_handler.py:167-172 end_call
EndCall ==
    \E sid \in CallSids :
      /\ call_conversations' =
            [x \in DOMAIN call_conversations \ {sid} |-> call_conversations[x]]
      /\ last' = [NoCall EXCEPT !.op = "end_call",
                                !.conv = IF sid \in DOMAIN call_conversations
                                         THEN call_conversations[sid]
                                         ELSE "None"]
      /\ UNCHANGED <<initialized, conversations, tasks, api>>

NextCalls == HandleIncomingCall \/ HandleTranscription \/ EndCall

SpecCalls == Init /\ [][NextCalls]_vars

---------------------------------------------------------------------------
\* The voice routes (routes.py): the /voice and /voice/transcription
\* webhooks.  Each webhook builds its own ConversationFlowManager, whose
\* ConversationHandler starts with an empty registry (flow.py:18-23,
\* handler.py:29-30).  In this specification call_conversations is
\* active_calls of routes.py, and conversations and initialized are the
\* registry and the flag of the manager that processed the last webhook.

\* Most webhooks followed.
MaxWebhooks == 3

RouteUtterances == {"issue", "email_ok"}

\* ConversationFlowManager() (flow.py:18-23): a new handler with an empty
\* registry, not initialized.
NewManager == [conversations |-> <<>>, initialized |-> FALSE]

\* The ids of the conversations active_calls holds.
ActiveIds ==
    {call_conversations[sid].conversation_id : sid \in DOMAIN call_conversations}

NoWebhook ==
    [op |-> "none", call_sid |-> "None", conv |-> "None", known |-> FALSE,
     entry |-> "None", response |-> "None", webhooks |-> 0]

InitRoutes ==
    /\ initialized = FALSE
    /\ conversations = <<>>
    /\ call_conversations = <<>>
    /\ tasks = [t \in TaskIds |-> IdleTask]
    /\ api = NewApi
    /\ last = NoWebhook

\* routes.py:16-89 handle_incoming_call: a new manager starts the
\* conversation, active_calls gets the id, and speech that came with the
\* call is processed by that manager.
VoiceWebhook ==
    \E sid \in CallSids, c \in CallConvIds \ ActiveIds,
       speech \in RouteUtterances \cup {"None"},
       inp0 \in InputsFor(NewManager.initialized, "None", <<>>, "issue") :
    \E s \in {start_conversation(NewManager.initialized, inp0)} :
    \E inp \in IF speech = "None" THEN {NoStart}
                ELSE InputsFor(s.initialized, s.ctx.current_state, <<>>,
                               speech) :
    \E p \in {process_message((c :> s.ctx) @@ NewManager.conversations,
                              s.initialized, c, speech, inp)} :
      /\ last.webhooks < MaxWebhooks
      /\ call_conversations' =
            (sid :> [conversation_id |-> c, state |-> "COLLECTING_ISSUE"])
               @@ call_conversations
      /\ conversations' =
            (c :> IF speech # "None" /\ p.known THEN p.r.ctx ELSE s.ctx)
      /\ initialized' = IF speech # "None" THEN p.initialized
                        ELSE s.initialized
      /\ last' = [op |-> "handle_incoming_call", call_sid |-> sid,
                  conv |-> c, known |-> speech # "None" /\ p.known,
                  entry |-> s.ctx.current_state,
                  response |-> IF speech # "None" THEN p.r.response
                               ELSE s.greeting,
                  webhooks |-> last.webhooks + 1]
      /\ UNCHANGED <<tasks, api>>

\* routes.py:91-160 handle_transcription: the id is read from active_calls
\* (a call without an entry gets a conversation started by a manager of its
\* own), and a new manager processes the transcript under that id.
TranscriptionWebhook ==
    \E sid \in CallSids, transcript \in RouteUtterances,
       fresh \in CallConvIds \ ActiveIds :
    \E c \in {IF sid \in DOMAIN call_conversations
               THEN call_conversations[sid].conversation_id ELSE fresh} :
    \E m \in {NewManager} :
    \E inp \in InputsFor(m.initialized,
                         IF c \in DOMAIN m.conversations
                         THEN m.conversations[c].current_state ELSE "None",
                         <<>>, transcript) :
    \E p \in {process_message(m.conversations, m.initialized, c, transcript,
                              inp)} :
      /\ last.webhooks < MaxWebhooks
      /\ sid \in DOMAIN call_conversations =>
            fresh = CHOOSE x \in CallConvIds \ ActiveIds : TRUE
      /\ call_conversations' =
            IF sid \in DOMAIN call_conversations THEN call_conversations
            ELSE (sid :> [conversation_id |-> c, state |-> "COLLECTING_ISSUE"])
                    @@ call_conversations
      /\ conversations' =
            IF p.known THEN [m.conversations EXCEPT ![c] = p.r.ctx]
            ELSE m.conversations
      /\ initialized' = p.initialized
      /\ last' = [op |-> "handle_transcription", call_sid |-> sid,
                  conv |-> c, known |-> p.known,
                  entry |-> IF c \in DOMAIN m.conversations
                            THEN m.conversations[c].current_state ELSE "None",
                  response |-> p.r.response,
                  webhooks |-> last.webhooks + 1]
      /\ UNCHANGED <<tasks, api>>

NextRoutes == VoiceWebhook \/ TranscriptionWebhook

SpecRoutes == InitRoutes /\ [][NextRoutes]_vars

---------------------------------------------------------------------------
\* ConversationContext.add_message with entities (state.py:51-69), called
\* on one context.

EntityTypes == {"email", "name"}

EntityValues == {"a", "b"}

\* Entity.confidence, Field(ge=0.0, le=1.0), in tenths.
Confidences == {0, 5, 10}

Entities == [type : EntityTypes, value : EntityValues, confidence : Confidences]

\* Most entities of one message, and most messages added.
MaxEntities == 2

MaxAddMessages == 3

EntityLists == UNION {[1..n -> Entities] : n \in 0..MaxEntities}

\* The greatest confidence of type t among the entities of a list and `seen`.
SeenAfter(seen, entities, t) ==
    LET all == {seen} \cup {entities[i].confidence :
                               i \in {j \in DOMAIN entities :
                                        entities[j].type = t}}
    IN  CHOOSE m \in all : \A x \in all : x <= m

\* The first entity of type t that reached the greatest confidence; `tie` of
\* the record of the last call: it brought an entity that equals the kept
\* one of its type in confidence and differs from it.
BestAfter(best, seen, entities, t) ==
    LET m    == SeenAfter(seen, entities, t)
        hits == {i \in DOMAIN entities :
                   entities[i].type = t /\ entities[i].confidence = m}
    IN  IF m > seen
        THEN entities[CHOOSE i \in hits : \A j \in hits : i <= j]
        ELSE best

InitEntities ==
    /\ initialized = FALSE
    /\ conversations = ("c1" :> NewContext)
    /\ last = [op |-> "none", tie |-> FALSE,
               seen |-> [t \in EntityTypes |-> 0],
               best |-> [t \in EntityTypes |-> NoEntity]]
    /\ call_conversations = <<>>
    /\ tasks = [t \in TaskIds |-> IdleTask]
    /\ api = NewApi

AddMessage ==
    \E role \in {"user", "assistant"}, entities \in EntityLists :
      /\ Len(conversations["c1"].messages) < MaxAddMessages
      /\ conversations' =
            [conversations EXCEPT
               !["c1"] = add_message(@, role, "issue", "None", entities)]
      /\ last' = [op |-> "add_message",
                  tie |-> \E i \in DOMAIN entities :
                             /\ entities[i].confidence > 0
                             /\ entities[i].confidence
                                   = last.seen[entities[i].type]
                             /\ entities[i] # last.best[entities[i].type],
                  seen |-> [t \in EntityTypes |->
                              SeenAfter(last.seen[t], entities, t)],
                  best |-> [t \in EntityTypes |->
                              BestAfter(last.best[t], last.seen[t],
                                        entities, t)]]
      /\ UNCHANGED <<initialized, call_conversations, tasks, api>>

NextEntities == AddMessage

SpecEntities == InitEntities /\ [][NextEntities]_vars

---------------------------------------------------------------------------
\* TicketManager called on its own: create_ticket and _determine_priority on
\* a context with any short history.

\* Longest history of the context.
MaxTicketMessages == 4

TicketContents == {"issue", "urgent"}

\* What a caller passes as email and as phone: nothing, a value that
\* validates, a value that does not.
TicketArguments == {"None", "ok", "bad"}

TicketHistories ==
    UNION {[1..n -> [role : {"user", "assistant"}, content : TicketContents]] :
              n \in 0..MaxTicketMessages}

NoTicketCall ==
    [op |-> "none", email |-> "None", phone |-> "None", ok |-> FALSE,
     error |-> "None", calls |-> {}, priority |-> "None"]

InitTicket ==
    /\ initialized = TRUE
    /\ \E messages \in TicketHistories :
          conversations =
             ("c1" :> [NewContext EXCEPT
                          !.current_state = ConversationState.CREATING_TICKET,
                          !.messages = messages])
    /\ last = NoTicketCall
    /\ call_conversations = <<>>
    /\ tasks = [t \in TaskIds |-> IdleTask]
    /\ api = NewApi

\* One call of create_ticket (ticket_manager.py:80-193).
CreateTicket ==
    \E email \in TicketArguments, phone \in TicketArguments,
       kayako \in KayakoAnswers :
      LET t == create_ticket_on(conversations["c1"], email, phone,
                                kayako.lookup, kayako.api)
      IN  /\ conversations' = [conversations EXCEPT !["c1"] = t.ctx]
          /\ last' = [op |-> "create_ticket", email |-> email, phone |-> phone,
                      ok |-> t.result.ok, error |-> t.result.error,
                      calls |-> t.result.calls,
                      priority |-> t.result.priority]
          /\ UNCHANGED <<initialized, call_conversations, tasks, api>>

\* One call of _determine_priority (ticket_manager.py:63-78).
DeterminePriority ==
    /\ last' = [NoTicketCall EXCEPT
                   !.op = "determine_priority",
                   !.priority = determine_priority(conversations["c1"].messages)]
    /\ UNCHANGED <<initialized, conversations, call_conversations, tasks, api>>

NextTicket == CreateTicket \/ DeterminePriority

SpecTicket == InitTicket /\ [][NextTicket]_vars

---------------------------------------------------------------------------
\* ConversationContext.get_context_window (state.py:71-104) on a context
\* that add_message and transition_state change in between.

\* Longest history of the context, and largest max_messages asked for.
MaxContextMessages == 3

MaxWindowArgument == 3

\* state.py:85-104 _get_system_prompt: the text embeds the state's value,
\* the value of each detected entity and the last intent's value or "None".
get_system_prompt(ctx) ==
    [state |-> ctx.current_state,
     entities |-> [t \in DOMAIN ctx.detected_entities |->
                      ctx.detected_entities[t].value],
     intent |-> ctx.last_intent]

\* A get_context_window that keeps the system entry in the history.
GetContextWindowStoring(ctx, max_messages) ==
    [ctx |-> [ctx EXCEPT !.messages =
                 Append(@, [role |-> "system", content |-> "prompt"])],
     window |-> <<[role |-> "system", content |-> get_system_prompt(ctx)]>>
                   \o LastN(ctx.messages, max_messages)]

\* state.py:71-83 get_context_window: the context after the call and the
\* list returned.
get_context_window(ctx, max_messages) ==
    [ctx |-> ctx,
     window |-> <<[role |-> "system", content |-> get_system_prompt(ctx)]>>
                   \o [i \in 1..Len(LastN(ctx.messages, max_messages)) |->
                          [role |-> LastN(ctx.messages, max_messages)[i].role,
                           content |->
                               LastN(ctx.messages, max_messages)[i].content]]]

NoWindow == [op |-> "none", max_messages |-> 0, window |-> <<>>]

InitContext ==
    /\ initialized = TRUE
    /\ conversations = ("c1" :> NewContext)
    /\ last = NoWindow
    /\ call_conversations = <<>>
    /\ tasks = [t \in TaskIds |-> IdleTask]
    /\ api = NewApi

\* context.add_message(...)
ContextAddMessage ==
    \E role \in {"user", "assistant"}, content \in {"issue", "email_ok"},
       intent \in {"None", Intent.CONFIRM},
       entities \in {<<>>, <<[type |-> "email", value |-> "a",
                               confidence |-> 10]>>} :
      /\ Len(conversations["c1"].messages) < MaxContextMessages
      /\ conversations' = [conversations EXCEPT !["c1"] =
                              add_message(@, role, content, intent, entities)]
      /\ last' = [NoWindow EXCEPT !.op = "add_message"]
      /\ UNCHANGED <<initialized, call_conversations, tasks, api>>

\* context.transition_state(...)
ContextTransition ==
    \E new_state \in {ConversationState.COLLECTING_ISSUE,
                      ConversationState.PROVIDING_SOLUTION} :
      /\ conversations' = [conversations EXCEPT !["c1"] =
                              transition_state(@, new_state)]
      /\ last' = [NoWindow EXCEPT !.op = "transition_state"]
      /\ UNCHANGED <<initialized, call_conversations, tasks, api>>

\* context.get_context_window(max_messages)
GetContextWindow ==
    \E max_messages \in 0..MaxWindowArgument :
      LET w == get_context_window(conversations["c1"], max_messages)
      IN  /\ conversations' = [conversations EXCEPT !["c1"] = w.ctx]
          /\ last' = [op |-> "get_context_window",
                      max_messages |-> max_messages, window |-> w.window]
          /\ UNCHANGED <<initialized, call_conversations, tasks, api>>

NextContext == ContextAddMessage \/ ContextTransition \/ GetContextWindow

SpecContext == InitContext /\ [][NextContext]_vars

---------------------------------------------------------------------------
\* The email extraction of extract_contact_info (ticket_manager.py:221-246)
\* on one spoken utterance without history.  An utterance is the sequence
\* of its words, which the transcript separates by blanks.

\* Longest spoken local part, in words.
MaxLocalWords == 3

\* ticket_manager.py:222-223: the words "at" and "dot" become "@" and ".";
\* the blanks around them stay.
normalize_word(word) ==
    CASE word = "at" -> "@"
      [] word = "dot" -> "."
      [] OTHER -> word

processed_message(words) ==
    [i \in 1..Len(words) |-> normalize_word(words[i])]

\* Words that are a whole written address.
WrittenAddresses == {"john.smith@gmail.com"}

\* ticket_manager.py:227-228: the pattern [\w\.-]+@[\w\.-]+\.\w{2,} has no
\* blank in it, so it matches inside one word only.
complete_email(processed) ==
    FirstMatch([i \in 1..Len(processed) |->
                   IF processed[i] \in WrittenAddresses THEN processed[i]
                   ELSE "None"])

\* ticket_manager.py:233-235: the leftmost run of [\w\.-] that is followed,
\* after optional blanks, by "@" or by the end of the text.
username(processed) ==
    FirstMatch([i \in 1..Len(processed) |->
                   IF processed[i] # "@"
                      /\ (i = Len(processed) \/ processed[i + 1] = "@")
                   THEN processed[i] ELSE "None"])

\* ticket_manager.py:237-244, in the order of the elif chain.
Providers == <<"gmail", "yahoo", "hotmail", "outlook">>

provider(processed) ==
    FirstMatch([k \in 1..Len(Providers) |->
                   IF \E i \in 1..Len(processed) : processed[i] = Providers[k]
                   THEN Providers[k] ELSE "None"])

\* ticket_manager.py:221-246
extract_email(words) ==
    LET processed == processed_message(words)
    IN  IF complete_email(processed) # "None" THEN complete_email(processed)
        ELSE IF username(processed) # "None" /\ provider(processed) # "None"
             THEN username(processed) \o "@" \o provider(processed) \o ".com"
             ELSE "None"

LocalParts ==
    UNION {[1..n -> {"john", "dot", "smith"}] : n \in 1..MaxLocalWords}

\* What a caller says to give an address: the local part word by word, "at",
\* the domain, with or without words before it; and an utterance whose
\* transcript has the address written out.
SpokenUtterances ==
    {prefix \o local \o <<"at">> \o domain :
        prefix \in {<<>>, <<"my", "email", "is">>},
        local \in LocalParts,
        domain \in {<<"gmail", "dot", "com">>, <<"yahoo", "dot", "com">>,
                    <<"example", "dot", "com">>}}
      \cup {<<"my", "email", "is", "john.smith@gmail.com">>}

InitSpoken ==
    /\ initialized = TRUE
    /\ conversations = <<>>
    /\ \E words \in SpokenUtterances :
          last = [op |-> "none", message |-> words, email |-> "None"]
    /\ call_conversations = <<>>
    /\ tasks = [t \in TaskIds |-> IdleTask]
    /\ api = NewApi

\* extract_contact_info(message) on the utterance.
ExtractContactInfo ==
    /\ last.op = "none"
    /\ last' = [last EXCEPT !.op = "extract_contact_info",
                            !.email = extract_email(last.message)]
    /\ UNCHANGED <<initialized, conversations, call_conversations, tasks, api>>

NextSpoken == ExtractContactInfo

SpecSpoken == InitSpoken /\ [][NextSpoken]_vars

---------------------------------------------------------------------------
\* RealKayakoAPI (kayako_client.py): get_user, get_user_by_email,
\* create_user and update_user with their retries and the user cache.  A call is a series of attempts;
\* each action is one attempt with the answer of the server to it: "ok",
\* "404", "error" (an exception before the server acted) or "lost" (the
\* server carried the request out and the response failed: raise_for_status,
\* response.json() or User(**data) threw).  api.user_cache is
\* self.user_cache under its "user:<id>" keys, api.user_email_cache the same
\* cache under its "user_email:<email>" keys.

\* stop_after_attempt(3) of the @retry decorators
MaxAttempts == 3

\* Most calls made.
MaxApiCalls == 3

KayakoUserIds == {"1", "2"}

UserData == {"v1", "v2"}

\* The email field of the user data.
Email(data) == IF data = "v1" THEN "a@x" ELSE "b@x"

\* The users the server holds under an email.
UsersWith(a, email) == {u \in DOMAIN a.server : Email(a.server[u]) = email}

\* A retry that gives up after the second attempt.
StopAfterTwo(attempts) == attempts < 2

\* tenacity: a failed attempt is followed by another one until
\* stop_after_attempt(3) says stop; then RetryError is raised.
should_retry(attempts) == attempts < MaxAttempts

\* One attempt of get_user (kayako_client.py:309-342).
get_user_attempt(a, user_id, answer) ==
    IF user_id \in DOMAIN a.user_cache
    THEN [api |-> a, failed |-> FALSE, result |-> a.user_cache[user_id],
          seen |-> "cached"]
    ELSE CASE answer = "error" ->
                [api |-> a, failed |-> TRUE, result |-> "None",
                 seen |-> answer]
           [] answer = "404" ->
                [api |-> a, failed |-> FALSE, result |-> "None",
                 seen |-> answer]
           [] OTHER ->
                [api |-> [a EXCEPT !.user_cache =
                             (user_id :> a.server[user_id]) @@ @],
                 failed |-> FALSE, result |-> a.server[user_id],
                 seen |-> answer]

\* One attempt of get_user_by_email (kayako_client.py:345-381); first is
\* the user the server lists first for the email.
get_user_by_email_attempt(a, email, first, answer) ==
    IF email \in DOMAIN a.user_email_cache
    THEN [api |-> a, failed |-> FALSE,
          result |-> a.user_email_cache[email].data,
          id |-> a.user_email_cache[email].id, seen |-> "cached"]
    ELSE IF answer = "error"
    THEN [api |-> a, failed |-> TRUE, result |-> "None", id |-> "None",
          seen |-> answer]
    ELSE IF UsersWith(a, email) = {}
    THEN [api |-> a, failed |-> FALSE, result |-> "None", id |-> "None",
          seen |-> answer]
    ELSE [api |-> [a EXCEPT !.user_email_cache =
                      (email :> [id |-> first, data |-> a.server[first]])
                         @@ @],
          failed |-> FALSE, result |-> a.server[first], id |-> first,
          seen |-> answer]

\* One attempt of create_user (kayako_client.py:384-413); the server gives
\* the new user the id new_id.
create_user_attempt(a, new_id, data, answer) ==
    CASE answer = "error" ->
           [api |-> a, failed |-> TRUE, result |-> "None", seen |-> answer]
      [] answer = "lost" ->
           [api |-> [a EXCEPT !.server = (new_id :> data) @@ @],
            failed |-> TRUE, result |-> "None", seen |-> answer]
      [] OTHER ->
         [api |-> [a EXCEPT !.server = (new_id :> data) @@ @,
                            !.user_cache = (new_id :> data) @@ @,
                            !.user_email_cache =
                                (Email(data) :> [id |-> new_id,
                                                 data |-> data]) @@ @],
          failed |-> FALSE, result |-> new_id, seen |-> answer]

\* An update_user that leaves the cache alone.
UpdateUserUncached(a, user_id, data, answer) ==
    CASE answer = "error" ->
           [api |-> a, failed |-> TRUE, result |-> "None", seen |-> answer]
      [] answer = "lost" ->
           [api |-> [a EXCEPT !.server = (user_id :> data) @@ @],
            failed |-> TRUE, result |-> "None", seen |-> answer]
      [] answer = "404" ->
           [api |-> a, failed |-> FALSE, result |-> "False", seen |-> answer]
      [] OTHER ->
           [api |-> [a EXCEPT !.server = (user_id :> data) @@ @],
            failed |-> FALSE, result |-> "True", seen |-> answer]

\* One attempt of update_user (kayako_client.py:416-448).
update_user_attempt(a, user_id, data, answer) ==
    CASE answer = "error" ->
           [api |-> a, failed |-> TRUE, result |-> "None", seen |-> answer]
      [] answer = "lost" ->
           [api |-> [a EXCEPT !.server = (user_id :> data) @@ @],
            failed |-> TRUE, result |-> "None", seen |-> answer]
      [] answer = "404" ->
           [api |-> a, failed |-> FALSE, result |-> "False", seen |-> answer]
      [] OTHER ->
           [api |-> [a EXCEPT !.server = (user_id :> data) @@ @,
                              !.user_cache = (user_id :> data) @@ @,
                              !.user_email_cache =
                                  (Email(data) :> [id |-> user_id,
                                                   data |-> data]) @@ @],
            failed |-> FALSE, result |-> "True", seen |-> answer]

\* What the server can answer to a request about user_id; to a create_user
\* user_id is the id the server would give the new user.
ServerAnswers(a, op, user_id) ==
    CASE op = "create_user" ->
           IF user_id \in DOMAIN a.server THEN {"error"}
           ELSE {"ok", "error", "lost"}
      [] op = "update_user" ->
           IF user_id \in DOMAIN a.server THEN {"ok", "error", "lost"}
           ELSE {"404", "error"}
      [] op = "get_user_by_email" -> {"ok", "error"}
      [] OTHER ->
           IF user_id \in DOMAIN a.server THEN {"ok", "error"}
           ELSE {"404", "error"}

\* The record of the calls: the call made last, the answers its attempts
\* got, how it ended, and for each user the data a create_user or
\* update_user that succeeded wrote ("None" from the moment a later
\* request changes the user on the server and fails), and the users whose
\* cache entry an update_user replaced by other data.
NoApiCall ==
    [op |-> "none", user_id |-> "None", email |-> "None", status |-> "none",
     answers |-> <<>>, result |-> "None", calls |-> 0,
     written |-> [u \in KayakoUserIds |-> "None"], replaced |-> {}]

InitKayako ==
    /\ initialized = TRUE
    /\ conversations = <<>>
    /\ call_conversations = <<>>
    /\ tasks = [t \in TaskIds |-> IdleTask]
    /\ api = NewApi
    /\ last = NoApiCall

\* A call of get_user, get_user_by_email, create_user or update_user
\* begins.
BeginApiCall ==
    \E op \in {"get_user", "get_user_by_email", "create_user", "update_user"},
       user_id \in KayakoUserIds, data \in UserData :
      /\ api.call.op = "none"
      /\ last.calls < MaxApiCalls
      /\ op \in {"create_user", "get_user_by_email"} => user_id = "1"
      /\ op = "get_user" => data = "v1"
      /\ LET id == IF op \in {"create_user", "get_user_by_email"}
                   THEN "None" ELSE user_id
             email == IF op = "get_user_by_email" THEN Email(data)
                      ELSE "None"
         IN  /\ api' = [api EXCEPT !.call =
                           [op |-> op, user_id |-> id, email |-> email,
                            data |-> IF op = "get_user_by_email" THEN "None"
                                     ELSE data,
                            attempts |-> 0]]
             /\ last' = [last EXCEPT !.op = op, !.user_id = id,
                                     !.email = email,
                                     !.status = "running", !.answers = <<>>,
                                     !.result = "None", !.calls = @ + 1]
      /\ UNCHANGED <<initialized, conversations, call_conversations, tasks>>

\* One attempt of the call in progress, and what tenacity does after it.
ApiAttempt ==
    \E id \in KayakoUserIds, answer \in {"ok", "404", "error", "lost"} :
      /\ api.call.op # "none"
      /\ api.call.op \in {"get_user", "update_user"} => id = api.call.user_id
      /\ api.call.op = "create_user" =>
            id = IF "1" \in DOMAIN api.server THEN "2" ELSE "1"
      /\ api.call.op = "get_user_by_email" =>
            id \in IF UsersWith(api, api.call.email) = {} THEN {"1"}
                   ELSE UsersWith(api, api.call.email)
      /\ answer \in ServerAnswers(api, api.call.op, id)
      /\ LET call == [api.call EXCEPT !.user_id = id]
             r == CASE call.op = "get_user" ->
                         get_user_attempt(api, call.user_id, answer)
                    [] call.op = "get_user_by_email" ->
                         get_user_by_email_attempt(api, call.email, id,
                                                   answer)
                    [] call.op = "create_user" ->
                         create_user_attempt(api, call.user_id, call.data,
                                             answer)
                    [] OTHER ->
                         update_user_attempt(api, call.user_id, call.data,
                                             answer)
             again == r.failed /\ should_retry(call.attempts + 1)
         IN  /\ api' = [r.api EXCEPT !.call =
                           IF again THEN [api.call EXCEPT !.attempts = @ + 1]
                           ELSE NewApi.call]
             /\ last' = [last EXCEPT
                   !.answers = Append(@, r.seen),
                   !.status = IF again THEN "running"
                              ELSE IF r.failed THEN "raised" ELSE "returned",
                   !.result = r.result,
                   !.user_id = IF r.failed THEN @
                               ELSE IF call.op = "get_user_by_email"
                               THEN r.id ELSE id,
                   !.written =
                       CASE r.seen = "lost" -> [@ EXCEPT ![id] = "None"]
                         [] r.seen = "ok"
                            /\ call.op \in {"create_user", "update_user"} ->
                              [@ EXCEPT ![id] = call.data]
                         [] OTHER -> @,
                   !.replaced =
                       IF /\ r.seen = "ok" /\ call.op = "update_user"
                          /\ id \in DOMAIN api.user_cache
                          /\ api.user_cache[id] # call.data
                       THEN @ \cup {id} ELSE @]
      /\ UNCHANGED <<initialized, conversations, call_conversations, tasks>>

\* The TTL of a cache entry runs out (TTLCache(maxsize=100, ttl=60),
\* kayako_client.py:99).
CacheExpires ==
      /\ api.call.op = "none"
      /\ \/ \E user_id \in DOMAIN api.user_cache :
               api' = [api EXCEPT !.user_cache =
                          [u \in DOMAIN @ \ {user_id} |-> @[u]]]
         \/ \E email \in DOMAIN api.user_email_cache :
               api' = [api EXCEPT !.user_email_cache =
                          [e \in DOMAIN @ \ {email} |-> @[e]]]
      /\ last' = [last EXCEPT !.op = "ttl"]
      /\ UNCHANGED <<initialized, conversations, call_conversations, tasks>>

NextKayako == BeginApiCall \/ ApiAttempt \/ CacheExpires

SpecKayako == InitKayako /\ [][NextKayako]_vars

---------------------------------------------------------------------------
\* RealKayakoAPI (kayako_client.py): get_messages and delete_message with
\* the message cache.  api.messages is the server: the ids of the messages
\* of each conversation.  api.message_cache is self.message_cache: under
\* <<"message", id>> the conversation_id of a cached Message, under
\* <<"messages", conversation>> the ids of a cached list (one paging).  A
\* call is followed to its end: "error" is a call whose third attempt failed.

\* The messages the server holds.
ServerMessages == ("k1" :> {"m1", "m2"}) @@ ("k2" :> {"m3"})

MessageIds == UNION {ServerMessages[k] : k \in DOMAIN ServerMessages}

\* Most calls made.
MaxMessageCalls == 3

MessageKey(message_id) == <<"message", message_id>>

ListKey(conversation_id) == <<"messages", conversation_id>>

\* The cache without the keys in gone.
Without(cache, gone) == [key \in DOMAIN cache \ gone |-> cache[key]]

\* get_messages (kayako_client.py:501-545).
get_messages(a, conversation_id, answer) ==
    IF ListKey(conversation_id) \in DOMAIN a.message_cache
    THEN [api |-> a, raised |-> FALSE, cached |-> TRUE,
          result |-> a.message_cache[ListKey(conversation_id)].ids]
    ELSE IF answer = "error"
    THEN [api |-> a, raised |-> TRUE, cached |-> FALSE, result |-> {}]
    ELSE [api |-> [a EXCEPT !.message_cache =
                      (ListKey(conversation_id)
                          :> [ids |-> a.messages[conversation_id]])
                      @@ [key \in {MessageKey(m) :
                                     m \in a.messages[conversation_id]} |->
                             [conversation_id |-> conversation_id]]
                      @@ @],
          raised |-> FALSE, cached |-> FALSE,
          result |-> a.messages[conversation_id]]

\* delete_message (kayako_client.py:640-664); result: the value returned.
delete_message(a, message_id, answer) ==
    CASE answer = "error" -> [api |-> a, raised |-> TRUE, result |-> FALSE]
      [] answer = "404" -> [api |-> a, raised |-> FALSE, result |-> FALSE]
      [] OTHER ->
           [api |-> [a EXCEPT
               !.messages = [k \in DOMAIN @ |-> @[k] \ {message_id}],
               !.message_cache =
                   IF MessageKey(message_id) \in DOMAIN @
                   THEN Without(@, {MessageKey(message_id),
                                    ListKey(@[MessageKey(message_id)]
                                               .conversation_id)})
                   ELSE @],
            raised |-> FALSE, result |-> TRUE]

\* The record of the calls: the call made last and its outcome, and the
\* messages a delete_message that returned True deleted.
NoMessageCall ==
    [op |-> "none", conversation_id |-> "None", message_id |-> "None",
     raised |-> FALSE, cached |-> FALSE, result |-> {}, deleted |-> {},
     calls |-> 0]

InitMessages ==
    /\ initialized = TRUE
    /\ conversations = <<>>
    /\ call_conversations = <<>>
    /\ tasks = [t \in TaskIds |-> IdleTask]
    /\ api = [NewApi EXCEPT !.messages = ServerMessages]
    /\ last = NoMessageCall

GetMessages ==
    \E conversation_id \in DOMAIN api.messages, answer \in {"ok", "error"} :
    \E r \in {get_messages(api, conversation_id, answer)} :
      /\ last.calls < MaxMessageCalls
      /\ api' = r.api
      /\ last' = [last EXCEPT !.op = "get_messages",
                              !.conversation_id = conversation_id,
                              !.message_id = "None",
                              !.raised = r.raised, !.cached = r.cached,
                              !.result = r.result, !.calls = @ + 1]
      /\ UNCHANGED <<initialized, conversations, call_conversations, tasks>>

DeleteMessage ==
    \E message_id \in MessageIds, answer \in {"ok", "404", "error"} :
    \E r \in {delete_message(api, message_id, answer)} :
      /\ last.calls < MaxMessageCalls
      /\ answer = "404" <=>
            \A k \in DOMAIN api.messages : message_id \notin api.messages[k]
      /\ api' = r.api
      /\ last' = [last EXCEPT !.op = "delete_message",
                              !.conversation_id = "None",
                              !.message_id = message_id,
                              !.raised = r.raised, !.cached = FALSE,
                              !.result = {},
                              !.deleted = IF r.result THEN @ \cup {message_id}
                                          ELSE @,
                              !.calls = @ + 1]
      /\ UNCHANGED <<initialized, conversations, call_conversations, tasks>>

\* An entry leaves the cache: its TTL ran out, or it was the entry evicted
\* to make room (TTLCache(maxsize=200, ttl=30), kayako_client.py:101).
MessageEntryExpires ==
    \E key \in DOMAIN api.message_cache :
      /\ api' = [api EXCEPT !.message_cache = Without(@, {key})]
      /\ last' = [last EXCEPT !.op = "expiry"]
      /\ UNCHANGED <<initialized, conversations, call_conversations, tasks>>

NextMessages == GetMessages \/ DeleteMessage \/ MessageEntryExpires

SpecMessages == InitMessages /\ [][NextMessages]_vars

---------------------------------------------------------------------------
\* MockKayakoAPI (mock_kayako.py): create_ticket on the ticket store.  In
\* this specification api is the mock: its field tickets is self._tickets,
\* the status of every stored ticket by id.

\* TICKET_STATUSES of mock_data.py
TICKET_STATUSES == {"open", "in_progress", "resolved", "closed"}

\* The statuses create_ticket lets through (mock_kayako.py:33).
ValidStatuses == {"ACTIVE", "CLOSED", "PENDING"}

\* The statuses of the tickets handed to create_ticket.
GivenStatuses == TICKET_STATUSES \cup {"ACTIVE", "PENDING", "invalid"}

\* f"tick-{str(uuid.uuid4())[:8]}": the ids uuid4 can give.
GeneratedIds == {"tick-a", "tick-b"}

\* Most calls made.
MaxMockCalls == 3

\* SAMPLE_TICKETS of mock_data.py
SampleTickets == ("tick-001" :> "ACTIVE")

\* MockKayakoAPI.create_ticket (mock_kayako.py:30-50) for a Ticket of
\* interfaces.py: the status check, the new id, the store, and the log
\* lines, of which print(f"Contents: {ticket.contents}") reads a field a
\* Ticket does not have.
mock_create_ticket(store, status, ticket_id) ==
    IF status \notin ValidStatuses
    THEN [tickets |-> store, error |-> "ValueError", result |-> "None"]
    ELSE [tickets |-> (ticket_id :> status) @@ store,
          error |-> "AttributeError", result |-> "None"]

NoMockCall ==
    [op |-> "none", status |-> "None", error |-> "None", result |-> "None",
     before |-> SampleTickets, calls |-> 0]

InitMock ==
    /\ initialized = TRUE
    /\ conversations = <<>>
    /\ call_conversations = <<>>
    /\ tasks = [t \in TaskIds |-> IdleTask]
    /\ api = [tickets |-> SampleTickets]
    /\ last = NoMockCall

\* One call of create_ticket with a ticket of some status.
MockCreateTicket ==
    \E status \in GivenStatuses, ticket_id \in GeneratedIds :
      /\ last.calls < MaxMockCalls
      /\ \E r \in {mock_create_ticket(api.tickets, status, ticket_id)} :
            /\ api' = [tickets |-> r.tickets]
            /\ last' = [op |-> "create_ticket", status |-> status,
                        error |-> r.error, result |-> r.result,
                        before |-> api.tickets, calls |-> last.calls + 1]
      /\ UNCHANGED <<initialized, conversations, call_conversations, tasks>>

NextMock == MockCreateTicket

SpecMock == InitMock /\ [][NextMock]_vars

---------------------------------------------------------------------------
\* Calls of one ConversationFlowManager that run as asyncio tasks: a call is
\* suspended at its awaits (kb_engine.initialize, detect_intent,
\* search_and_summarize, the Kayako API in create_ticket, generate_response)
\* and other calls run meanwhile.  Each action is a call from one await to
\* the next.

\* Most calls made.
MaxAsyncCalls == 4

AsyncUtterances == {"issue", "email_ok"}

\* The ids uuid4 gives to the conversations started (flow.py:51).
AsyncConvIds == {"c1", "c2"}

\* The record of the calls so far: how many were made (a turn's seq is its
\* number in the order of delivery), how often kb_engine.initialize returned
\* successfully, whether it was invoked after a success, whether a search
\* began while uninitialized, the seq of the user messages in the order they
\* were appended, whether a turn read the state while a turn delivered
\* before it was still running, and the conversations a ticket was created
\* for, one entry per ticket.
NoAsync ==
    [calls |-> 0, inits |-> 0, init_after_success |-> FALSE,
     search_uninit |-> FALSE, recorded |-> <<>>, stale |-> FALSE,
     created |-> <<>>]

InitAsync ==
    /\ initialized = FALSE
    /\ conversations = <<>>
    /\ call_conversations = <<>>
    /\ tasks = [t \in TaskIds |-> IdleTask]
    /\ api = NewApi
    /\ last = NoAsync

\* flow.py:27-29: initialize awaits kb_engine.initialize() when the flag is
\* not set.
InvokesInit == ~initialized

\* flow.py:88-96: the lookup of the context, then the await of detect_intent.
Lookup(task) ==
    IF task.conv \in DOMAIN conversations
    THEN [task EXCEPT !.pc = "classify"] ELSE IdleTask

\* start_conversation up to its first await (flow.py:45-47, 27-29).
BeginStart ==
    \E t \in TaskIds :
      /\ tasks[t].pc = "idle"
      /\ last.calls < MaxAsyncCalls
      /\ Cardinality(DOMAIN conversations)
            + Cardinality({u \in TaskIds : tasks[u].op = "start"})
           < Cardinality(AsyncConvIds)
      /\ IF InvokesInit
         THEN /\ tasks' = [tasks EXCEPT ![t] = [IdleTask EXCEPT !.pc = "init",
                                                               !.op = "start"]]
              /\ UNCHANGED conversations
         ELSE /\ \E c \in AsyncConvIds \ DOMAIN conversations :
                   conversations' =
                      (c :> start_conversation(TRUE, NoStart).ctx)
                         @@ conversations
              /\ UNCHANGED tasks
      /\ last' = [last EXCEPT !.calls = @ + 1,
                              !.init_after_success =
                                  @ \/ (InvokesInit /\ last.inits > 0)]
      /\ UNCHANGED <<initialized, call_conversations, api>>

\* process_message up to its first await (flow.py:81-96), called with an id
\* that start_conversation returned (twilio_handler.py:120-130).
BeginTurn ==
    \E t \in TaskIds, c \in DOMAIN conversations,
       message \in AsyncUtterances :
      /\ tasks[t].pc = "idle"
      /\ last.calls < MaxAsyncCalls
      /\ tasks' = [tasks EXCEPT ![t] =
                      LET task == [IdleTask EXCEPT !.op = "turn", !.conv = c,
                                                   !.message = message,
                                                   !.seq = last.calls + 1]
                      IN  IF InvokesInit THEN [task EXCEPT !.pc = "init"]
                          ELSE Lookup(task)]
      /\ last' = [last EXCEPT !.calls = @ + 1,
                              !.init_after_success =
                                  @ \/ (InvokesInit /\ last.inits > 0)]
      /\ UNCHANGED <<initialized, conversations, call_conversations, api>>

\* kb_engine.initialize() returns or raises (flow.py:29-36), and the call
\* goes on to its next await or to its end (flow.py:49-62, 85-96).
InitReturns ==
    \E t \in TaskIds, answer \in InitAnswers :
      /\ tasks[t].pc = "init"
      /\ LET i == initialize(FALSE, [NoStart EXCEPT !.init = answer])
         IN  /\ initialized' = (initialized \/ i.initialized)
             /\ last' = [last EXCEPT !.inits = IF i.initialized THEN @ + 1
                                               ELSE @]
             /\ IF tasks[t].op = "start"
                THEN /\ \E c \in AsyncConvIds \ DOMAIN conversations :
                          conversations' =
                             (c :> start_conversation(
                                      FALSE,
                                      [NoStart EXCEPT !.init = answer]).ctx)
                                @@ conversations
                     /\ tasks' = [tasks EXCEPT ![t] = IdleTask]
                ELSE /\ tasks' = [tasks EXCEPT ![t] =
                                     IF i.message # "None" THEN IdleTask
                                     ELSE Lookup(tasks[t])]
                     /\ UNCHANGED conversations
      /\ UNCHANGED <<call_conversations, api>>

\* The collaborator the turn awaits next, after the user message is added:
\* the Kayako API when create_ticket gets as far as get_user_by_email
\* (ticket_manager.py), the search (flow.py:122-123), the response
\* generator (_handle_state), or none.
Awaits(state, intent, contact) ==
    CASE state \in {ConversationState.COLLECTING_ISSUE,
                    ConversationState.CREATING_TICKET}
           /\ HasContact(contact)
           -> IF contact.email # "None" /\ validate_email(contact.email)
                 /\ (contact.phone # "None" => validate_phone(contact.phone))
              THEN "ticket" ELSE "none"
      [] state = ConversationState.COLLECTING_ISSUE /\ ~HasContact(contact)
           -> IF initialized THEN "search" ELSE "none"
      [] state = ConversationState.PROVIDING_SOLUTION
           -> IF intent \in {Intent.CONFIRM, Intent.DENY} THEN "none"
              ELSE "generate"
      [] state = ConversationState.SEARCHING_KB -> "generate"
      [] OTHER -> "none"

\* detect_intent returns or raises, and the turn goes on to its next await
\* or to its end (flow.py:96-165).
ClassifyReturns ==
    \E t \in TaskIds, reply \in ClassifierReplies :
      /\ tasks[t].pc = "classify"
      /\ LET task == tasks[t]
             c    == task.conv
             ctx  == conversations[c]
             d    == detect_intent(reply)
             ctx1 == add_message(ctx, "user", task.message, d.intent,
                                 d.entities)
             contact == extract_contact_info(task.message, ctx1.messages)
             next == Awaits(ctx.current_state, d.intent, contact)
             r0   == [Result(ctx1, "None") EXCEPT !.classified = TRUE,
                                                  !.intent = d.intent]
         IN  IF ~d.ok
             THEN /\ tasks' = [tasks EXCEPT ![t] = IdleTask]
                  /\ UNCHANGED <<conversations, last>>
             ELSE /\ conversations' = [conversations EXCEPT ![c] =
                        CASE next = "none" ->
                               Except(RecordResponse(
                                         Dispatch(r0, contact, task.message,
                                                  initialized, NoStart)),
                                      R_TROUBLE).ctx
                          [] next = "ticket" ->
                               LET stored == [ctx1 EXCEPT !.metadata =
                                                 [email |-> contact.email,
                                                  phone |-> contact.phone]]
                               IN  IF ctx.current_state
                                        = ConversationState.COLLECTING_ISSUE
                                   THEN transition_state(
                                           stored,
                                           ConversationState.CREATING_TICKET)
                                   ELSE stored
                          [] OTHER -> ctx1]
                  /\ tasks' = [tasks EXCEPT ![t] =
                                  IF next = "none" THEN IdleTask
                                  ELSE [task EXCEPT !.pc = next,
                                                    !.contact = contact]]
                  /\ last' = [last EXCEPT
                        !.recorded = Append(@, task.seq),
                        !.search_uninit =
                            @ \/ (next = "search" /\ ~initialized),
                        !.stale = \/ @
                                  \/ \E u \in TaskIds \ {t} :
                                        /\ tasks[u].op = "turn"
                                        /\ tasks[u].conv = c
                                        /\ tasks[u].seq < task.seq
                                  \/ \E i \in DOMAIN last.recorded :
                                        last.recorded[i] > task.seq]
      /\ UNCHANGED <<initialized, call_conversations, api>>

\* A search whose outcome is written to every conversation of the registry.
SearchReturnsEverywhere ==
    \E t \in TaskIds, kb \in KbAnswers :
      /\ tasks[t].pc = "search"
      /\ conversations' = [c \in DOMAIN conversations |->
            RecordResponse(SearchKb(Result(conversations[c], "None"), TRUE,
                                    [NoStart EXCEPT !.kb = kb])).ctx]
      /\ tasks' = [tasks EXCEPT ![t] = IdleTask]
      /\ UNCHANGED <<initialized, call_conversations, last, api>>

\* search_and_summarize returns (flow.py:123-132, 155-161).
SearchReturns ==
    \E t \in TaskIds, kb \in KbAnswers :
      /\ tasks[t].pc = "search"
      /\ conversations' = [conversations EXCEPT ![tasks[t].conv] =
            RecordResponse(SearchKb(Result(@, "None"), TRUE,
                                    [NoStart EXCEPT !.kb = kb])).ctx]
      /\ tasks' = [tasks EXCEPT ![t] = IdleTask]
      /\ UNCHANGED <<initialized, call_conversations, last, api>>

\* create_ticket returns or raises (flow.py:114-117, 142-145).
TicketReturns ==
    \E t \in TaskIds, kayako \in KayakoAnswers :
      /\ tasks[t].pc = "ticket"
      /\ \E r \in {create_ticket(tasks[t].contact.email,
                                 tasks[t].contact.phone,
                                 kayako.lookup, kayako.api)} :
            /\ conversations' = [conversations EXCEPT ![tasks[t].conv] =
                  IF r.ok THEN transition_state(@, ConversationState.ENDED)
                  ELSE @]
            /\ last' = [last EXCEPT !.created =
                  IF r.ok THEN Append(@, tasks[t].conv) ELSE @]
      /\ tasks' = [tasks EXCEPT ![t] = IdleTask]
      /\ UNCHANGED <<initialized, call_conversations, api>>

\* generate_response returns or raises (flow.py:153-165).
GenerateReturns ==
    \E t \in TaskIds, gen \in GenAnswers :
      /\ tasks[t].pc = "generate"
      /\ conversations' = [conversations EXCEPT ![tasks[t].conv] =
            Except(RecordResponse(
                      generate_response(Result(@, "None"),
                                        [NoStart EXCEPT !.gen = gen])),
                   R_TROUBLE).ctx]
      /\ tasks' = [tasks EXCEPT ![t] = IdleTask]
      /\ UNCHANGED <<initialized, call_conversations, last, api>>

NextAsync ==
    \/ BeginStart
    \/ BeginTurn
    \/ InitReturns
    \/ ClassifyReturns
    \/ SearchReturns
    \/ TicketReturns
    \/ GenerateReturns

SpecAsync == InitAsync /\ [][NextAsync]_vars

---------------------------------------------------------------------------
\* The last call was a process_message that met the conversation in `state`.
TurnIn(state) == last.op = "process_message" /\ last.entry = state

\* The state the last call left its conversation in.
StateNow == conversations[last.conv].current_state

MetadataNow == conversations[last.conv].metadata

\* The utterance itself holds an email or a phone number.
UtteranceHasContact ==
    EmailIn(last.message) # "None" \/ PhoneIn(last.message) # "None"

\* C1: process_message returns one of its response strings whatever the
\* utterance and whatever the collaborators answer or raise; no exception
\* leaves the call.
C1_AlwaysResponds ==
    last.op = "process_message" =>
        ~last.r.raised /\ last.r.response \in Responses

\* C1: a turn in which a collaborator raised after the utterance was
\* classified, answered with the inner handler's apology.
C1_Witness ==
    /\ TurnIn(ConversationState.PROVIDING_SOLUTION)
    /\ last.r.classified
    /\ last.r.response = R_TROUBLE

\* C2 as stated: in COLLECTING_ISSUE an utterance with an email or a phone
\* number has its contact info stored in metadata, moves the conversation to
\* CREATING_TICKET (and on to ENDED when the ticket is created), has ticket
\* creation attempted and the knowledge base not searched.
C2_Original ==
    (TurnIn(ConversationState.COLLECTING_ISSUE) /\ UtteranceHasContact) =>
        /\ MetadataNow.email # "absent"
        /\ MetadataNow = [email |-> last.r.contact_info.email,
                          phone |-> last.r.contact_info.phone]
        /\ StateNow \in {ConversationState.CREATING_TICKET,
                         ConversationState.ENDED}
        /\ last.r.ticket_attempted
        /\ ~last.r.kb_called

\* C2 on the turns whose utterance is classified: the contact check comes
\* before the search.
C2_WhenClassified ==
    (TurnIn(ConversationState.COLLECTING_ISSUE) /\ UtteranceHasContact
       /\ last.r.classified) =>
        /\ MetadataNow = [email |-> last.r.contact_info.email,
                          phone |-> last.r.contact_info.phone]
        /\ StateNow \in {ConversationState.CREATING_TICKET,
                         ConversationState.ENDED}
        /\ last.r.ticket_attempted
        /\ ~last.r.kb_called

\* What C3 says of the search: when it ran, its result decided the state.
SearchDecides ==
    /\ (last.r.kb_called /\ last.r.kb_response # "None")
          => StateNow = ConversationState.PROVIDING_SOLUTION
    /\ (last.r.kb_called /\ last.r.kb_response = "None")
          => /\ StateNow = ConversationState.CREATING_TICKET
             /\ last.r.response = R_NO_KB
    /\ StateNow # ConversationState.COLLECTING_ISSUE => last.r.kb_called

C4_Original ==
    (TurnIn(ConversationState.CREATING_TICKET) /\ HasContact(last.offered)) =>
        /\ last.r.ticket_attempted
        /\ StateNow = ConversationState.ENDED <=> last.r.ticket_ok
        /\ ~last.r.ticket_ok =>
              /\ StateNow = ConversationState.CREATING_TICKET
              /\ last.r.response = R_TICKET_FAIL

\* C4 on the turns whose utterance is classified.
C4_WhenClassified ==
    (TurnIn(ConversationState.CREATING_TICKET) /\ HasContact(last.offered)
       /\ last.r.classified) =>
        /\ last.r.ticket_attempted
        /\ StateNow = ConversationState.ENDED <=> last.r.ticket_ok
        /\ ~last.r.ticket_ok =>
              /\ StateNow = ConversationState.CREATING_TICKET
              /\ last.r.response = R_TICKET_FAIL

\* The contact info the last turn gave to create_ticket passes its validation.
ValidContact ==
    /\ HasContact(last.r.contact_info)
    /\ last.r.contact_info.email # "None" => validate_email(last.r.contact_info.email)
    /\ last.r.contact_info.phone # "None" => validate_phone(last.r.contact_info.phone)

\* C5 as stated, for one turn: in CREATING_TICKET a ticket attempt with valid
\* contact info that the ticketing system answers successfully ends the
\* conversation, and a failed attempt leaves it in CREATING_TICKET, where the
\* next turn can try again.
C5_Original ==
    /\ (TurnIn(ConversationState.CREATING_TICKET) /\ last.r.ticket_attempted
          /\ ValidContact /\ last.r.kayako_up)
          => StateNow = ConversationState.ENDED
    /\ (TurnIn(ConversationState.CREATING_TICKET) /\ last.r.ticket_attempted
          /\ ~last.r.ticket_ok)
          => StateNow = ConversationState.CREATING_TICKET

\* C5, the part that holds: no turn takes a conversation out of
\* CREATING_TICKET without a created ticket.
C5_RetryStaysPossible ==
    TurnIn(ConversationState.CREATING_TICKET) =>
        \/ StateNow = ConversationState.CREATING_TICKET
        \/ StateNow = ConversationState.ENDED /\ last.r.ticket_ok

\* C6 as stated: in CREATING_TICKET, when no contact info can be extracted,
\* the state stays CREATING_TICKET, the ticketing system is not called and
\* the response asks again for an email or phone number.
C6_Original ==
    (TurnIn(ConversationState.CREATING_TICKET) /\ ~HasContact(last.offered)) =>
        /\ StateNow = ConversationState.CREATING_TICKET
        /\ ~last.r.ticket_attempted /\ last.r.api_calls = {}
        /\ last.r.response = R_ASK_CONTACT

\* C6 on the turns whose utterance is classified.
C6_WhenClassified ==
    (TurnIn(ConversationState.CREATING_TICKET) /\ ~HasContact(last.offered)
       /\ last.r.classified) =>
        /\ StateNow = ConversationState.CREATING_TICKET
        /\ ~last.r.ticket_attempted /\ last.r.api_calls = {}
        /\ last.r.response = R_ASK_CONTACT

\* C7: in PROVIDING_SOLUTION the intent CONFIRM moves the conversation to
\* ENDED, DENY moves it to CREATING_TICKET, and every other answer of the
\* classifier leaves it in PROVIDING_SOLUTION.
C7_ProvidingSolution ==
    TurnIn(ConversationState.PROVIDING_SOLUTION) =>
        /\ last.reply = Intent.CONFIRM => StateNow = ConversationState.ENDED
        /\ last.reply = Intent.DENY
              => StateNow = ConversationState.CREATING_TICKET
        /\ last.reply \notin {Intent.CONFIRM, Intent.DENY}
              => StateNow = ConversationState.PROVIDING_SOLUTION

\* C7: a confirmed solution has ended the conversation.
C7_Witness ==
    /\ TurnIn(ConversationState.PROVIDING_SOLUTION)
    /\ last.reply = Intent.CONFIRM
    /\ StateNow = ConversationState.ENDED
    /\ last.r.response = R_GREAT

\* C8 as stated: in ENDED the intent CONFIRM re-opens the conversation in
\* COLLECTING_ISSUE; DENY and END_CONVERSATION leave it ENDED and return the
\* farewell.
C8_Original ==
    TurnIn(ConversationState.ENDED) =>
        /\ last.reply = "confirm"
              => StateNow = ConversationState.COLLECTING_ISSUE
        /\ last.reply \in {"deny", "end_conversation"}
              => /\ StateNow = ConversationState.ENDED
                 /\ last.r.response = R_FAREWELL

\* C8, the part that holds: CONFIRM and DENY.
C8_ConfirmDeny ==
    TurnIn(ConversationState.ENDED) =>
        /\ last.reply = "confirm"
              => StateNow = ConversationState.COLLECTING_ISSUE
        /\ last.reply = "deny"
              => /\ StateNow = ConversationState.ENDED
                 /\ last.r.response = R_FAREWELL

\* C9 as stated: in ENDED an utterance whose intent is neither CONFIRM, DENY
\* nor END_CONVERSATION moves the conversation to COLLECTING_ISSUE.
C9_Original ==
    (TurnIn(ConversationState.ENDED)
       /\ last.reply \in PromptIntents \ {"confirm", "deny", "end_conversation"})
        => StateNow = ConversationState.COLLECTING_ISSUE

\* C10 as stated: in COLLECTING_ISSUE an utterance classified as
\* END_CONVERSATION moves the conversation to ENDED with the farewell (or the
\* ticket response), a ticket being attempted first when contact info is
\* stored in metadata.
C10_Original ==
    (TurnIn(ConversationState.COLLECTING_ISSUE)
       /\ last.reply = "end_conversation") =>
        /\ StateNow = ConversationState.ENDED
        /\ last.r.response \in {R_FAREWELL, R_TICKET_OK, R_TICKET_FAIL}
        /\ (MetadataNow.email # "absent" \/ MetadataNow.phone # "absent")
              => last.r.ticket_attempted

\* C11 as stated: in COLLECTING_ISSUE an utterance classified UNKNOWN that
\* contains the word "human" moves the conversation to CREATING_TICKET and
\* is answered with a request for an email, whatever the search returns.
C11_Original ==
    (TurnIn(ConversationState.COLLECTING_ISSUE)
       /\ last.reply = Intent.UNKNOWN /\ ContainsHuman(last.message)) =>
        /\ StateNow = ConversationState.CREATING_TICKET
        /\ last.r.response \in {R_HUMAN, R_NO_KB}

\* The history of the last call's conversation holds its utterance as a user
\* message.
UtteranceRecorded ==
    \E i \in DOMAIN conversations[last.conv].messages :
        conversations[last.conv].messages[i] =
            [role |-> "user", content |-> last.message]

\* C12 as stated: a turn whose classification fails goes on with intent
\* UNKNOWN: the utterance is recorded in the history and the handling of the
\* current state runs (in COLLECTING_ISSUE and CREATING_TICKET it looks for
\* contact info), so the turn is not answered by the handler of aborted turns.
C12_Original ==
    (last.op = "process_message" /\ last.known
       /\ ~detect_intent(last.reply).ok) =>
        /\ last.r.intent = Intent.UNKNOWN
        /\ UtteranceRecorded
        /\ last.entry \in {ConversationState.COLLECTING_ISSUE,
                           ConversationState.CREATING_TICKET}
              => last.r.extracted
        /\ last.r.response # R_TROUBLE

\* C13 as stated: detect_intent returns the intent a reply names for each of
\* the nine intents of the classifier's prompt, END_CONVERSATION included,
\* and signals an error for every other reply.
C13_Original ==
    (last.op = "process_message" /\ last.known) =>
        /\ last.reply \in PromptIntents
              => last.r.classified /\ last.r.intent = last.reply
        /\ last.reply \notin PromptIntents => ~last.r.classified

\* C13, the part that holds: what detect_intent returns is a member of
\* Intent, the one the reply names, and every other reply is an error.
C13_ClosedSet ==
    (last.op = "process_message" /\ last.known) =>
        /\ last.r.classified <=> last.reply \in IntentValues
        /\ last.r.classified => last.r.intent = last.reply

\* C14: every start_conversation, whether or not the knowledge base could
\* be initialized, returns an id that was not in the registry with one of the
\* greetings, registers it with an empty history in COLLECTING_ISSUE and
\* leaves the other conversations as they were.
C14_StartRegisters ==
    [][last'.op = "start_conversation" =>
          /\ last'.conv \notin DOMAIN conversations
          /\ last'.conv \in DOMAIN conversations'
          /\ conversations'[last'.conv] =
                transition_state(NewContext, ConversationState.COLLECTING_ISSUE)
          /\ conversations'[last'.conv].messages = <<>>
          /\ last'.r.response \in {R_WELCOME, R_KB_DOWN}
          /\ \A c \in DOMAIN conversations :
                conversations'[c] = conversations[c]]_vars

\* C14: a second conversation started while the knowledge base cannot be
\* initialized.
C14_Witness ==
    /\ last.op = "start_conversation"
    /\ ~initialized
    /\ last.r.response = R_KB_DOWN
    /\ Cardinality(DOMAIN conversations) >= 2
    /\ conversations[last.conv].current_state
          = ConversationState.COLLECTING_ISSUE

\* C19 as stated: once the telephony layer has ended a call, the call's
\* conversation id no longer resolves to a context in the registry.
C19_Original ==
    (last.op = "end_call" /\ last.conv # "None") =>
        last.conv \notin DOMAIN conversations

\* C15 as stated: while the knowledge base cannot be initialized, a turn in
\* COLLECTING_ISSUE without contact info moves the conversation to
\* CREATING_TICKET, and a turn in CREATING_TICKET with valid contact info
\* creates the ticket and ends the conversation.
C15_Original ==
    /\ (TurnIn(ConversationState.COLLECTING_ISSUE) /\ ~initialized
          /\ ~HasContact(last.offered))
          => StateNow = ConversationState.CREATING_TICKET
    /\ (TurnIn(ConversationState.CREATING_TICKET) /\ ~initialized
          /\ HasContact(last.offered)
          /\ last.offered.email \in {"None", "ok"})
          => last.r.ticket_ok /\ StateNow = ConversationState.ENDED

\* C15, what happens instead: a turn that finds the knowledge base still
\* failing is answered with the knowledge-base message and changes nothing.
C15_TurnSkipped ==
    (last.op = "process_message" /\ ~initialized) =>
        /\ last.r.response = R_KB_DOWN
        /\ ~last.r.classified
        /\ last.conv \in DOMAIN conversations =>
              /\ StateNow = last.entry
              /\ conversations[last.conv].messages = <<>>

\* a is b, or b with messages appended.
IsPrefix(a, b) == Len(a) <= Len(b) /\ SubSeq(b, 1, Len(a)) = a

\* C17: over every step the history of every conversation only grows by
\* appending: the history before is a prefix of the history after.
C17_AppendOnly ==
    [][\A c \in DOMAIN conversations :
          /\ c \in DOMAIN conversations'
          /\ IsPrefix(conversations[c].messages,
                      conversations'[c].messages)]_vars

\* C17: a second turn has added its user message and its response to a
\* history that held a turn already.
C17_Witness ==
    /\ last.op = "process_message"
    /\ last.r.classified /\ ~last.r.direct /\ ~last.r.raised
    /\ Len(conversations[last.conv].messages) >= 4
    /\ conversations[last.conv].messages[
          Len(conversations[last.conv].messages)].role = "assistant"

\* C18: after every add_message the entity kept for a type has the greatest
\* confidence seen for that type (none kept: 0) and is the first entity that
\* reached it; over every step a type's confidence does not decrease and its
\* entity changes only to one of strictly greater confidence.
C18_MaxConfidence ==
    /\ [](\A t \in EntityTypes :
            /\ Confidence(conversations["c1"].detected_entities, t)
                  = last.seen[t]
            /\ t \in DOMAIN conversations["c1"].detected_entities
                  => conversations["c1"].detected_entities[t] = last.best[t])
    /\ [][\A t \in EntityTypes :
            /\ Confidence(conversations["c1"].detected_entities', t)
                  >= Confidence(conversations["c1"].detected_entities, t)
            /\ (t \in DOMAIN conversations["c1"].detected_entities
                  /\ conversations["c1"].detected_entities'[t]
                        # conversations["c1"].detected_entities[t])
                  => Confidence(conversations["c1"].detected_entities', t)
                        > Confidence(conversations["c1"].detected_entities, t)
          ]_vars

\* C18: a later message brought an entity of the same type and the same
\* confidence as the one kept, and the earlier one is still kept.
C18_Witness ==
    /\ last.op = "add_message"
    /\ last.tie
    /\ "email" \in DOMAIN conversations["c1"].detected_entities
    /\ conversations["c1"].detected_entities["email"] =
          [type |-> "email", value |-> "a", confidence |-> 5]
    /\ "name" \notin DOMAIN conversations["c1"].detected_entities

\* C16 as stated: also when calls overlap, the knowledge base is initialized
\* successfully at most once, kb_engine.initialize is not invoked after a
\* success, and no search begins while the orchestrator is uninitialized.
C16_Original ==
    /\ last.inits <= 1
    /\ ~last.init_after_success
    /\ ~last.search_uninit

\* C16, the part that holds: no initialization is begun after a success and
\* no search begins while uninitialized.
C16_LazyAndGuarded ==
    ~last.init_after_success /\ ~last.search_uninit

\* C20 as stated: also when turns of one conversation overlap, the user
\* messages are appended in the order the turns were delivered, and no turn
\* reads the state while a turn delivered before it is still running.
C20_Original ==
    /\ \A i, j \in DOMAIN last.recorded :
          i < j => last.recorded[i] < last.recorded[j]
    /\ ~last.stale

\* C21: a step of a process_message call inserts and deletes no registry
\* entry and leaves the context of every conversation but its own as it
\* was.
C21_OnlyOwnContext ==
    [][\A t \in TaskIds :
          (tasks'[t] # tasks[t]
             /\ (tasks[t].op = "turn" \/ tasks'[t].op = "turn")) =>
              /\ DOMAIN conversations' = DOMAIN conversations
              /\ \A c \in DOMAIN conversations :
                    c # (IF tasks[t].op = "turn" THEN tasks[t].conv
                         ELSE tasks'[t].conv)
                       => conversations'[c] = conversations[c]]_vars

\* Two conversations, each with a turn of its own recorded, one of them
\* moved on to another state.
C21_Witness ==
    /\ DOMAIN conversations = AsyncConvIds
    /\ \A c \in AsyncConvIds : conversations[c].messages # <<>>
    /\ conversations["c1"].current_state # conversations["c2"].current_state

\* C22: create_ticket called with neither an email nor a phone raises the
\* validation error before any call to the Kayako API, and no call of
\* create_ticket, successful or not, changes the context it is given.
C22_NoContactNoMutation ==
    /\ [](last.op = "create_ticket" /\ last.email = "None"
             /\ last.phone = "None" =>
               last.error = "ValueError" /\ last.calls = {})
    /\ [][last'.op = "create_ticket" => conversations' = conversations]_vars

\* create_ticket was called without contact on a context with a history.
C22_Witness ==
    /\ last.op = "create_ticket"
    /\ conversations["c1"].messages # <<>>
    /\ last.email = "None" /\ last.phone = "None"
    /\ last.error = "ValueError"

\* C23 as stated: create_ticket raises the validation error exactly when
\* neither the email nor the phone it is given validates, and a request in
\* which one of them validates reaches the Kayako API.
C23_Original ==
    last.op = "create_ticket" =>
        LET one_validates == validate_email(last.email)
                                \/ validate_phone(last.phone)
        IN  /\ (last.error = "ValueError") <=> ~one_validates
            /\ one_validates => last.calls # {}

\* C23, what holds instead: the validation error is raised exactly when
\* nothing is given or something given does not validate.
C23_AnyGivenInvalid ==
    last.op = "create_ticket" =>
        ((last.error = "ValueError") <=>
            \/ last.email = "None" /\ last.phone = "None"
            \/ last.email # "None" /\ ~validate_email(last.email)
            \/ last.phone # "None" /\ ~validate_phone(last.phone))

\* C24 as stated: the priority create_ticket gives the ticket is high when
\* one of the last 3 user messages of the history has an urgency keyword,
\* and medium otherwise.
C24_Original ==
    (last.op = "create_ticket" /\ last.priority # "None") =>
        last.priority =
            (LET users == LastN(UserContents(conversations["c1"].messages),
                                PriorityWindow)
             IN  IF \E i \in 1..Len(users) : UrgentIn(users[i])
                 THEN "high" ELSE "medium")

\* C25 as stated: the contact extraction of a turn finds the contact details
\* of the current message and of the caller's last 5 earlier user messages,
\* each message taken once, and of no older message.
C25_Original ==
    [][(last'.op = "process_message" /\ last'.r.extracted) =>
          last'.r.contact_info =
             (LET searched ==
                      Append(LastN(UserContents(
                                      conversations[last'.conv].messages),
                                   ContactWindow),
                             last'.message)
              IN  [email |-> FirstMatch([i \in 1..Len(searched) |->
                                            EmailIn(searched[i])]),
                   phone |-> FirstMatch([i \in 1..Len(searched) |->
                                            PhoneIn(searched[i])])])]_vars

\* C26 as stated: from the single utterance "my email is john dot smith at
\* gmail dot com" extract_contact_info returns john.smith@gmail.com.
C26_Original ==
    (last.op = "extract_contact_info"
       /\ last.message = <<"my", "email", "is", "john", "dot", "smith", "at",
                           "gmail", "dot", "com">>) =>
        last.email = "john.smith@gmail.com"

\* C26, what is returned instead: the one word before "at" as local part.
C26_LastWordOnly ==
    (last.op = "extract_contact_info"
       /\ last.message = <<"my", "email", "is", "john", "dot", "smith", "at",
                           "gmail", "dot", "com">>) =>
        last.email = "smith@gmail.com"

\* C27: get_context_window leaves the context as it was, its first entry is
\* the system entry also when the history is empty, and a call that follows
\* a call with the same max_messages, with no add_message and no transition
\* in between, returns the same content.
C27_PureRead ==
    [][last'.op = "get_context_window" =>
          /\ conversations' = conversations
          /\ last'.window[1] =
                [role |-> "system",
                 content |-> get_system_prompt(conversations["c1"])]
          /\ (last.op = "get_context_window"
                /\ last.max_messages = last'.max_messages)
                => last'.window = last.window]_vars

\* The window was read from a context with messages and a detected entity.
C27_Witness ==
    /\ last.op = "get_context_window"
    /\ conversations["c1"].messages # <<>>
    /\ conversations["c1"].detected_entities # <<>>
    /\ Len(last.window) > 1

\* C28 as stated: for every max_messages >= 0 the window is the system entry
\* followed by the min(max_messages, history length) latest messages, in the
\* order of the history.
C28_Original ==
    last.op = "get_context_window" =>
        last.window =
            <<[role |-> "system",
               content |-> get_system_prompt(conversations["c1"])]>>
               \o LastAtMost(conversations["c1"].messages, last.max_messages)

\* C28, for max_messages >= 1.
C28_PositiveWindow ==
    (last.op = "get_context_window" /\ last.max_messages >= 1) =>
        last.window =
            <<[role |-> "system",
               content |-> get_system_prompt(conversations["c1"])]>>
               \o LastAtMost(conversations["c1"].messages, last.max_messages)

\* C29: a get_user whose attempt fails is attempted again, at most 3 times
\* in all; it returns the result of the first attempt that does not fail,
\* and after 3 failed attempts it raises without a further attempt.
C29_Retried ==
    last.op = "get_user" =>
        LET n == Len(last.answers)
        IN  /\ n <= 3
            /\ \A i \in 1..n : i < n => last.answers[i] = "error"
            /\ last.status = "raised" <=> (n = 3 /\ last.answers[n] = "error")
            /\ last.status = "running" =>
                  n < 3 /\ (n > 0 => last.answers[n] = "error")
            /\ last.status = "returned" =>
                  /\ n > 0 /\ last.answers[n] # "error"
                  /\ last.result =
                        CASE last.answers[n] = "404" -> "None"
                          [] last.answers[n] = "cached" ->
                               api.user_cache[last.user_id]
                          [] OTHER -> api.server[last.user_id]

\* A get_user returned the user at its third attempt.
C29_Witness ==
    /\ last.op = "get_user"
    /\ last.status = "returned"
    /\ last.answers = <<"error", "error", "ok">>
    /\ last.result # "None"

\* C30: after a create_user or update_user that succeeded, the cache entry
\* of the user holds the data the server returned, and a get_user of a user
\* created or updated before returns the data written last, also when the
\* cache held older data of the user before the update.
C30_CacheFollowsWrites ==
    /\ (last.op \in {"create_user", "update_user"}
          /\ last.status = "returned" /\ last.result \notin {"None", "False"}) =>
           /\ last.user_id \in DOMAIN api.user_cache
           /\ api.user_cache[last.user_id] = api.server[last.user_id]
           /\ api.user_cache[last.user_id] = last.written[last.user_id]
    /\ (last.op = "get_user" /\ last.status = "returned"
          /\ last.written[last.user_id] # "None") =>
           last.result = last.written[last.user_id]

\* A get_user answered from the cache returned what an update_user had
\* written over the data the user was created with.
C30_Witness ==
    /\ last.op = "get_user"
    /\ last.status = "returned"
    /\ last.answers = <<"cached">>
    /\ last.user_id \in last.replaced
    /\ last.result = last.written[last.user_id]

\* C31: MockKayakoAPI.create_ticket stores a ticket whose status is one of
\* the documented ticket statuses under a new id and returns that id; a
\* ticket with any other status raises ValueError and the store stays as
\* it was.
C31_Original ==
    last.op = "create_ticket" =>
        IF last.status \in TICKET_STATUSES
        THEN /\ last.error = "None"
             /\ last.result \in GeneratedIds
             /\ last.result \in DOMAIN api.tickets
             /\ last.result \notin DOMAIN last.before
        ELSE /\ last.error = "ValueError"
             /\ api.tickets = last.before

\* create_ticket raises ValueError exactly for the statuses outside ACTIVE,
\* CLOSED and PENDING, the documented ones among them, and then the store
\* stays as it was; it returns no id for any status.
C31_AsCoded ==
    last.op = "create_ticket" =>
        /\ last.result = "None"
        /\ last.error = "ValueError" <=> last.status \notin ValidStatuses
        /\ last.error = "ValueError" => api.tickets = last.before
        /\ last.error # "ValueError" =>
              \E id \in GeneratedIds :
                  api.tickets = (id :> last.status) @@ last.before

TransitionTable ==
    {<<ConversationState.GREETING, ConversationState.COLLECTING_ISSUE>>,
     <<ConversationState.COLLECTING_ISSUE, ConversationState.CREATING_TICKET>>,
     <<ConversationState.COLLECTING_ISSUE, ConversationState.ENDED>>,
     <<ConversationState.COLLECTING_ISSUE,
       ConversationState.PROVIDING_SOLUTION>>,
     <<ConversationState.PROVIDING_SOLUTION, ConversationState.ENDED>>,
     <<ConversationState.PROVIDING_SOLUTION,
       ConversationState.CREATING_TICKET>>,
     <<ConversationState.CREATING_TICKET, ConversationState.ENDED>>,
     <<ConversationState.ENDED, ConversationState.COLLECTING_ISSUE>>}

\* C33: a conversation of the registry is always in COLLECTING_ISSUE,
\* PROVIDING_SOLUTION, CREATING_TICKET or ENDED, never in GREETING or
\* SEARCHING_KB, and a turn that changes the state of a conversation changes
\* it along an edge of the transition table.
C33_StatesAndEdges ==
    /\ [](\A c \in DOMAIN conversations :
             conversations[c].current_state \in
                {ConversationState.COLLECTING_ISSUE,
                 ConversationState.PROVIDING_SOLUTION,
                 ConversationState.CREATING_TICKET,
                 ConversationState.ENDED})
    /\ [][\A c \in DOMAIN conversations :
             conversations'[c].current_state
                # conversations[c].current_state =>
                   <<conversations[c].current_state,
                     conversations'[c].current_state>> \in TransitionTable]_vars

\* A turn took an ended conversation back to COLLECTING_ISSUE.
C33_Witness ==
    /\ TurnIn(ConversationState.ENDED)
    /\ last.known
    /\ StateNow = ConversationState.COLLECTING_ISSUE

\* C34: a turn takes a conversation into ENDED only when the caller
\* confirmed a provided solution (CONFIRM in PROVIDING_SOLUTION) or when a
\* ticket was created with an email or a phone number stored in metadata; a
\* turn whose ticket attempt failed does not leave the conversation in ENDED.
C34_EndedOnlyWhenResolved ==
    (last.op = "process_message" /\ last.known) =>
        /\ (last.entry # ConversationState.ENDED
              /\ StateNow = ConversationState.ENDED) =>
               \/ /\ last.entry = ConversationState.PROVIDING_SOLUTION
                  /\ last.r.intent = Intent.CONFIRM
               \/ /\ last.r.ticket_ok
                  /\ \/ MetadataGet(MetadataNow.email) # "None"
                     \/ MetadataGet(MetadataNow.phone) # "None"
        /\ (last.r.ticket_attempted /\ ~last.r.ticket_ok) =>
               StateNow # ConversationState.ENDED

\* A turn took a conversation from PROVIDING_SOLUTION into ENDED on the
\* caller's CONFIRM.
C34_Witness ==
    /\ TurnIn(ConversationState.PROVIDING_SOLUTION)
    /\ last.known
    /\ StateNow = ConversationState.ENDED
    /\ last.r.intent = Intent.CONFIRM

\* The history of the conversation of the last call.
MessagesNow == conversations[last.conv].messages

\* C35: after a turn of a known conversation that returned a response, the
\* history ends with the user utterance followed by the response returned,
\* and user and assistant messages alternate in it.
C35_Original ==
    (last.op = "process_message" /\ last.known) =>
        /\ Len(MessagesNow) >= 2
        /\ MessagesNow[Len(MessagesNow) - 1] =
              [role |-> "user", content |-> last.message]
        /\ MessagesNow[Len(MessagesNow)] =
              [role |-> "assistant", content |-> last.r.response]
        /\ \A i \in 1..Len(MessagesNow) :
              MessagesNow[i].role =
                 (IF i % 2 = 1 THEN "user" ELSE "assistant")

\* What holds: a turn that was classified appends the user utterance, and
\* it appends the response after it unless the response is returned straight
\* from the ticket branches (the ticket outcome, or the request to repeat
\* the contact info).
C35_UnlessDirect ==
    (last.op = "process_message" /\ last.known /\ last.r.classified
       /\ ~last.r.raised /\ last.r.response # R_TROUBLE) =>
        IF last.r.direct
        THEN MessagesNow[Len(MessagesNow)] =
                [role |-> "user", content |-> last.message]
        ELSE /\ Len(MessagesNow) >= 2
             /\ MessagesNow[Len(MessagesNow) - 1] =
                   [role |-> "user", content |-> last.message]
             /\ MessagesNow[Len(MessagesNow)] =
                   [role |-> "assistant", content |-> last.r.response]

\* C36: process_message for an id that is not in the registry returns the
\* 'lost track' response, calls neither the intent classifier nor the
\* knowledge-base search nor the ticketing collaborator, and leaves the
\* registry as it was.
C36_Original ==
    [][(last'.op = "process_message"
          /\ last'.conv \notin DOMAIN conversations) =>
            /\ last'.r.response = R_LOST
            /\ ~last'.r.classified
            /\ ~last'.r.kb_called
            /\ ~last'.r.ticket_attempted
            /\ conversations' = conversations]_vars

\* What holds: the call answers with 'lost track', or with the message of a
\* failed initialization when the orchestrator was not initialized, and in
\* both cases calls none of the three collaborators and leaves the registry
\* as it was.
C36_OrInitMessage ==
    [][(last'.op = "process_message"
          /\ last'.conv \notin DOMAIN conversations) =>
            /\ last'.r.response \in {R_LOST, R_KB_DOWN}
            /\ last'.r.response = R_KB_DOWN => ~initialized /\ ~initialized'
            /\ ~last'.r.classified
            /\ ~last'.r.kb_called
            /\ ~last'.r.ticket_attempted
            /\ conversations' = conversations]_vars

\* C37: a /voice/transcription webhook of a CallSid that the /voice webhook
\* stored a conversation for is processed by that conversation: the turn
\* finds the context and answers from the state the turn before left.
C37_Original ==
    [][(last'.op = "handle_transcription"
          /\ last'.call_sid \in DOMAIN call_conversations) =>
            /\ last'.known
            /\ last'.conv = call_conversations[last'.call_sid].conversation_id
            /\ last'.entry # "None"]_vars

\* What holds: the transcript is processed under the stored id, by a manager
\* whose registry does not hold it; the turn never finds a context and the
\* caller hears 'lost track', or the message of the failed initialization.
C37_NeverFound ==
    [][last'.op = "handle_transcription" =>
            /\ ~last'.known
            /\ last'.call_sid \in DOMAIN call_conversations =>
                  last'.conv
                     = call_conversations[last'.call_sid].conversation_id
            /\ last'.response \in {R_LOST, R_KB_DOWN}
            /\ conversations' = <<>>]_vars

\* C38: once delete_message returned True for a message, no list of
\* messages in the cache contains it, and a get_messages answered from the
\* cache does not return it, whether or not the message had a cache entry of
\* its own when it was deleted.
C38_Original ==
    /\ \A key \in DOMAIN api.message_cache :
          key[1] = "messages" =>
              api.message_cache[key].ids \cap last.deleted = {}
    /\ (last.op = "get_messages" /\ last.cached) =>
          last.result \cap last.deleted = {}

\* What holds: while a message has a cache entry of its own, deleting it
\* removes that entry and the cached list of its conversation.
C38_WhenCached ==
    [][(last'.op = "delete_message" /\ ~last'.raised
          /\ last'.message_id \in last'.deleted
          /\ MessageKey(last'.message_id) \in DOMAIN api.message_cache) =>
            /\ MessageKey(last'.message_id) \notin DOMAIN api'.message_cache
            /\ ListKey(api.message_cache[MessageKey(last'.message_id)]
                          .conversation_id)
                  \notin DOMAIN api'.message_cache]_vars

\* C39: after an update_user that succeeded, a get_user_by_email answered
\* from the cache does not return data of the user from before the update,
\* under the user's new email and under the email the user had before.
C39_Original ==
    (last.op = "get_user_by_email" /\ last.status = "returned"
       /\ last.answers = <<"cached">> /\ last.user_id # "None"
       /\ last.written[last.user_id] # "None") =>
        last.result = last.written[last.user_id]

\* What holds: under the email of the data written last, the cache does not
\* serve older data of the user.
C39_NewEmailOnly ==
    (last.op = "get_user_by_email" /\ last.status = "returned"
       /\ last.answers = <<"cached">> /\ last.user_id # "None"
       /\ last.written[last.user_id] # "None"
       /\ last.email = Email(last.written[last.user_id])) =>
        last.result = last.written[last.user_id]

====
